---- MODULE Spec2Model ----
(***************************************************************************)
(* A model of build.rs, the build script of ffmpeg-sys: main() and the     *)
(* functions it calls (fetch, build, check_features, search_include).      *)
(* One behaviour of the model is one run of the script.  The environment   *)
(* the script reads (environment variables, the file system, what the      *)
(* external tools produce) is fixed by Init; the exit status of every      *)
(* subprocess is chosen when the step that runs it is taken.               *)
(*                                                                         *)
(* Text is modelled as TLA+ strings and every conversion the script makes  *)
(* (format!, to_uppercase, split, find, the C printf of the probe) is      *)
(* computed character by character.  Positions in a string are 1-based;    *)
(* str::find's None is position 0.                                         *)
(***************************************************************************)
EXTENDS Integers, Sequences, FiniteSets, TLC

VARIABLES
  env,           \* names of the environment variables that are set
  platform,      \* [target, host, out_dir]: TARGET, HOST and OUT_DIR
  world,         \* what the external tools and the installed headers provide
  fs,            \* the files the script tests, reads, deletes or creates
  pc,            \* the statement of main() the run is at
  args,          \* build(): the switches handed to ./configure
  cargo,         \* the cargo: directives printed so far, in order
  reader,        \* the lines of config.mak not read yet
  include_libs,  \* main(): the libraries accumulated from config.mak
  include_paths, \* main(): the header-search directories
  check_c,       \* check_features(): the synthesized program
  cc_args,       \* check_features(): the arguments handed to the C compiler
  stdout,        \* check_features(): the captured output of the program
  clang_args,    \* main(): the -I arguments handed to bindgen
  headers,       \* main(): the header paths handed to bindgen
  int_kinds,     \* IntCallbacks: the kind answered for each integer macro
  stages,        \* the subprocesses and stages run so far, in order
  exits,         \* the subprocesses that have exited, each with its success
  panic          \* the message of the panic that ended the run, or ""

vars == <<env, platform, world, fs, pc, args, cargo, reader, include_libs,
          include_paths, check_c, cc_args, stdout, clang_args, headers, int_kinds,
          stages, exits, panic>>

-----------------------------------------------------------------------------
(* Option<T> *)

None == << >>

Some(x) == <<x>>

is_some(o) == o # None

unwrap(o) == o[1]

-----------------------------------------------------------------------------
(* str *)

Min(S) == CHOOSE a \in S : \A b \in S : a <= b

\* The concatenation of f[lo], ..., f[hi], split in halves so that long
\* texts do not nest deeply.
RECURSIVE concat(_, _, _)
concat(f, lo, hi) ==
  IF lo > hi THEN ""
  ELSE IF lo = hi THEN f[lo]
  ELSE LET mid == (lo + hi) \div 2
       IN  concat(f, lo, mid) \o concat(f, mid + 1, hi)

\* The sequences of f[lo], ..., f[hi], one after another.
RECURSIVE flatten(_, _, _)
flatten(f, lo, hi) ==
  IF lo > hi THEN << >>
  ELSE IF lo = hi THEN f[lo]
  ELSE LET mid == (lo + hi) \div 2
       IN  flatten(f, lo, mid) \o flatten(f, mid + 1, hi)

\* The positions of `s` that hold the character `c`.
Starts(s, c) == {i \in 1..Len(s) : SubSeq(s, i, i) = c}

\* str::find restricted to the candidate positions `starts`: the first
\* position of `s` at which `t` occurs, 0 when there is none.
FindIn(s, t, starts) ==
  LET hits == {i \in starts : /\ i + Len(t) - 1 <= Len(s)
                              /\ SubSeq(s, i, i + Len(t) - 1) = t}
  IN  IF hits = {} THEN 0 ELSE Min(hits)

\* str::find: an occurrence of `t` starts where its first character is.
find(s, t) == IF t = "" THEN 1 ELSE FindIn(s, t, Starts(s, SubSeq(t, 1, 1)))

contains(s, t) == find(s, t) # 0

starts_with(s, t) == Len(t) <= Len(s) /\ SubSeq(s, 1, Len(t)) = t

ends_with(s, t) == Len(t) <= Len(s) /\ SubSeq(s, Len(s) - Len(t) + 1, Len(s)) = t

\* The members of a finite set of integers, in increasing order.
ascending(S) == [k \in 1..Cardinality(S) |-> CHOOSE x \in S : Cardinality({y \in S : y < x}) = k - 1]

\* str::split(c) for a one-character separator: the pieces of `s` between
\* the occurrences of `c`.
split(s, c) ==
  LET cuts == ascending(Starts(s, c))
      from(k) == IF k = 1 THEN 1 ELSE cuts[k - 1] + 1
      to(k) == IF k = Len(cuts) + 1 THEN Len(s) ELSE cuts[k] - 1
  IN  [k \in 1..(Len(cuts) + 1) |-> SubSeq(s, from(k), to(k))]

\* str::splitn(2, c): at most two pieces, cut at the first `c`.
splitn2(s, c) ==
  LET p == find(s, c)
  IN  IF p = 0 THEN <<s>> ELSE <<SubSeq(s, 1, p - 1), SubSeq(s, p + 1, Len(s))>>

\* str::replace(c, r) for a one-character pattern.
replace(s, c, r) ==
  concat([i \in 1..Len(s) |-> IF SubSeq(s, i, i) = c THEN r ELSE SubSeq(s, i, i)],
         1, Len(s))

lower_alphabet == "abcdefghijklmnopqrstuvwxyz"

upper_alphabet == "ABCDEFGHIJKLMNOPQRSTUVWXYZ"

\* The table that maps each character of `from` to the character at the
\* same place in `to`.
char_table(from, to) ==
  [c \in {SubSeq(from, i, i) : i \in 1..Len(from)} |->
     SubSeq(to, Min(Starts(from, c)), Min(Starts(from, c)))]

uppercase_table == char_table(lower_alphabet, upper_alphabet)

lowercase_table == char_table(upper_alphabet, lower_alphabet)

\* The character the table gives for `c`, `c` itself when it gives none.
map_char(c, table) == IF c \in DOMAIN table THEN table[c] ELSE c

map_chars(s, table) ==
  concat([i \in 1..Len(s) |-> map_char(SubSeq(s, i, i), table)], 1, Len(s))

to_uppercase(s) == map_chars(s, uppercase_table)

to_lowercase(s) == map_chars(s, lowercase_table)

\* The decimal text of an integer, as format!("{}") and printf("%d") print it.
RECURSIVE digits(_)
digits(n) ==
  IF n < 0 THEN "-" \o digits(-n)
  ELSE IF n < 10 THEN SubSeq("0123456789", n + 1, n + 1)
  ELSE digits(n \div 10) \o SubSeq("0123456789", (n % 10) + 1, (n % 10) + 1)

\* Vec::contains
vec_contains(v, x) == \E i \in 1..Len(v) : v[i] = x

-----------------------------------------------------------------------------
(* The process environment *)

\* env::var(name).is_ok()
var_is_ok(name) == name \in env

TARGET == platform.target

HOST == platform.host

\* cfg!(windows), cfg!(target_os = ...): the build script runs on the host.
cfg_windows == contains(HOST, "windows")

cfg_linux == contains(HOST, "linux")

cfg_macos == contains(HOST, "apple-darwin")

\* PathBuf::join on the host.
join(dir, name) == dir \o (IF cfg_windows THEN "\\" ELSE "/") \o name

output == platform.out_dir

\* version(): "MAJOR.MINOR" of the crate.
version == digits(world.crate_version[1]) \o "." \o digits(world.crate_version[2])

source == join(output, "ffmpeg-" \o version)

\* search(): OUT_DIR is absolute, so pushing it replaces the current directory.
search == join(output, "dist")

-----------------------------------------------------------------------------
(* build(): the switches of ./configure *)

\* The switch!(args, feat, name) statements of build(), in order.
switches ==
  <<
    <<"BUILD_LICENSE_GPL", "gpl">>, <<"BUILD_LICENSE_VERSION3", "version3">>,
    <<"BUILD_LICENSE_NONFREE", "nonfree">>, <<"AVCODEC", "avcodec">>,
    <<"AVDEVICE", "avdevice">>, <<"AVFILTER", "avfilter">>, <<"AVFORMAT", "avformat">>,
    <<"AVRESAMPLE", "avresample">>, <<"POSTPROC", "postproc">>, <<"SWRESAMPLE", "swresample">>,
    <<"SWSCALE", "swscale">>, <<"FFMPEG", "ffmpeg">>, <<"FFPLAY", "ffplay">>,
    <<"FFPROBE", "ffprobe">>
  >>

\* The enable!(args, feat, name) statements of build(), in order.
enables ==
  <<
    <<"BUILD_LIB_GNUTLS", "gnutls">>, <<"BUILD_LIB_OPENSSL", "openssl">>,
    <<"BUILD_LIB_SCHANNEL", "schannel">>, <<"BUILD_LIB_SECURETRANSPORT", "securetransport">>,
    <<"BUILD_LIB_FONTCONFIG", "fontconfig">>, <<"BUILD_LIB_FREI0R", "frei0r">>,
    <<"BUILD_LIB_LADSPA", "ladspa">>, <<"BUILD_LIB_ASS", "libass">>,
    <<"BUILD_LIB_FREETYPE", "libfreetype">>, <<"BUILD_LIB_FRIBIDI", "libfribidi">>,
    <<"BUILD_LIB_OPENCV", "libopencv">>, <<"BUILD_LIB_AACPLUS", "libaacplus">>,
    <<"BUILD_LIB_CELT", "libcelt">>, <<"BUILD_LIB_DCADEC", "libdcadec">>,
    <<"BUILD_LIB_FAAC", "libfaac">>, <<"BUILD_LIB_FDK_AAC", "libfdk-aac">>,
    <<"BUILD_LIB_GSM", "libgsm">>, <<"BUILD_LIB_ILBC", "libilbc">>,
    <<"BUILD_LIB_VAZAAR", "libvazaar">>, <<"BUILD_LIB_MP3LAME", "libmp3lame">>,
    <<"BUILD_LIB_OPENCORE_AMRNB", "libopencore-amrnb">>,
    <<"BUILD_LIB_OPENCORE_AMRWB", "libopencore-amrwb">>,
    <<"BUILD_LIB_OPENH264", "libopenh264">>, <<"BUILD_LIB_OPENH265", "libopenh265">>,
    <<"BUILD_LIB_OPENJPEG", "libopenjpeg">>, <<"BUILD_LIB_OPUS", "libopus">>,
    <<"BUILD_LIB_SCHROEDINGER", "libschroedinger">>, <<"BUILD_LIB_SHINE", "libshine">>,
    <<"BUILD_LIB_SNAPPY", "libsnappy">>, <<"BUILD_LIB_SPEEX", "libspeex">>,
    <<"BUILD_LIB_STAGEFRIGHT_H264", "libstagefright-h264">>,
    <<"BUILD_LIB_THEORA", "libtheora">>, <<"BUILD_LIB_TWOLAME", "libtwolame">>,
    <<"BUILD_LIB_UTVIDEO", "libutvideo">>, <<"BUILD_LIB_VO_AACENC", "libvo-aacenc">>,
    <<"BUILD_LIB_VO_AMRWBENC", "libvo-amrwbenc">>, <<"BUILD_LIB_VORBIS", "libvorbis">>,
    <<"BUILD_LIB_VPX", "libvpx">>, <<"BUILD_LIB_WAVPACK", "libwavpack">>,
    <<"BUILD_LIB_WEBP", "libwebp">>, <<"BUILD_LIB_X264", "libx264">>,
    <<"BUILD_LIB_X265", "libx265">>, <<"BUILD_LIB_AVS", "libavs">>,
    <<"BUILD_LIB_XVID", "libxvid">>, <<"BUILD_NVENC", "nvenc">>,
    <<"BUILD_LIB_SMBCLIENT", "libsmbclient">>, <<"BUILD_LIB_SSH", "libssh">>,
    <<"BUILD_PIC", "pic">>
  >>

\* A switch! that passes --enable-<name> whether or not the feature is set.
switch_always_enabling(feat, name) == <<"--enable-" \o name>>

\* switch!: pushes one of --enable-name and --disable-name, by the feature.
switch(feat, name) ==
  IF var_is_ok("CARGO_FEATURE_" \o feat)
  THEN <<"--enable-" \o name>>
  ELSE <<"--disable-" \o name>>

\* enable!: pushes --enable-name when the feature is set, nothing otherwise.
enable(feat, name) ==
  IF var_is_ok("CARGO_FEATURE_" \o feat)
  THEN <<"--enable-" \o name>>
  ELSE << >>

\* The --prefix of a Windows target: the path with its drive colon dropped,
\* backslashes turned and blanks and quotes escaped.
windows_prefix ==
  replace(replace(replace(replace(search, ":", ""), "\\", "/"), " ", "\\ "), "\"", "\\\"")

\* The switches build() pushes before the feature switches.
fixed_args ==
  (IF contains(TARGET, "windows")
   THEN (IF contains(TARGET, "-msvc") THEN <<"--toolchain=msvc">> ELSE << >>)
        \o (IF contains(TARGET, "x86_64")
            THEN <<"--target-os=win64", "--arch=x86_64">> ELSE << >>)
        \o <<"--prefix=/" \o windows_prefix>>
   ELSE <<"--prefix=" \o search>>)
  \o (IF TARGET # HOST THEN <<"--cross-prefix=" \o TARGET \o "-">> ELSE << >>)
  \o (IF var_is_ok("DEBUG")
      THEN <<"--enable-debug", "--disable-stripping">>
      ELSE <<"--disable-debug", "--enable-stripping">>)
  \o <<"--enable-static", "--disable-shared">>
  \o <<"--enable-pic">>

\* The whole switch list of build().
configure_args ==
  fixed_args
  \o flatten([k \in 1..Len(switches) |-> switch(switches[k][1], switches[k][2])],
             1, Len(switches))
  \o flatten([k \in 1..Len(enables) |-> enable(enables[k][1], enables[k][2])],
             1, Len(enables))

-----------------------------------------------------------------------------
(* main(): the directives of the build mode *)

statik == var_is_ok("CARGO_FEATURE_STATIC")

ffmpeg_ty == IF statik THEN "static" ELSE "dylib"

\* The libraries main() links by feature, in the order of its if statements.
linked_by_feature ==
  <<
    <<"AVCODEC", "avcodec">>, <<"AVFORMAT", "avformat">>, <<"AVFILTER", "avfilter">>,
    <<"AVDEVICE", "avdevice">>, <<"AVRESAMPLE", "avresample">>, <<"SWSCALE", "swscale">>,
    <<"SWRESAMPLE", "swresample">>
  >>

\* One cargo:rustc-link-lib directive of kind `ty` for `name`.
link_lib(ty, name) == "cargo:rustc-link-lib=" \o ty \o "=" \o name

\* The directive of one if statement: printed when the feature is set.
link_if_feature(entry) ==
  IF var_is_ok("CARGO_FEATURE_" \o entry[1])
  THEN <<link_lib(ffmpeg_ty, entry[2])>>
  ELSE << >>

\* What main() prints on entering the build mode, before it fetches.
build_mode_directives ==
  <<"cargo:rustc-link-search=native=" \o join(search, "lib")>>
  \o <<link_lib(ffmpeg_ty, "avutil")>>
  \o flatten([k \in 1..Len(linked_by_feature) |-> link_if_feature(linked_by_feature[k])],
             1, Len(linked_by_feature))
  \o (IF var_is_ok("CARGO_FEATURE_BUILD_ZLIB") /\ cfg_linux
      THEN <<"cargo:rustc-link-lib=z">> ELSE << >>)

-----------------------------------------------------------------------------
(* main(): the libraries of config.mak *)

\* Iterator::last
last(v) == v[Len(v)]

\* The library a line is for: the text after the last '-' of its key.
line_lib(line) == last(split(splitn2(line, "=")[1], "-"))

\* Whether the line has a value: splitn(2, '=') gives a second piece.
line_has_value(line) == Len(splitn2(line, "=")) = 2

\* A resolver that skips no line for its library.
line_never_gated_out(line) == FALSE

\* Whether the line is skipped because the feature of its library is unset.
line_gated_out(line) ==
  /\ line_lib(line) # "EXTRALIBS"
  /\ line_lib(line) # "avutil"
  /\ ~var_is_ok("CARGO_FEATURE_" \o to_uppercase(line_lib(line)))

\* Iterator::filter over a Vec, keeping the order.
RECURSIVE filter_windows(_)
filter_windows(v) ==
  IF v = << >> THEN << >>
  ELSE (IF ends_with(Head(v), ".lib")
        THEN <<SubSeq(Head(v), 1, Len(Head(v)) - 4)>> ELSE << >>)
       \o filter_windows(Tail(v))

RECURSIVE filter_unix(_)
filter_unix(v) ==
  IF v = << >> THEN << >>
  ELSE (IF starts_with(Head(v), "-l")
        THEN <<SubSeq(Head(v), 3, Len(Head(v)))>> ELSE << >>)
       \o filter_unix(Tail(v))

\* The library names of a line's value: NAME.lib tokens for a Windows
\* target, -lNAME tokens otherwise, with the decoration removed.
line_libs(linker_args) ==
  IF contains(TARGET, "windows")
  THEN filter_windows(split(linker_args, " "))
  ELSE filter_unix(split(linker_args, " "))

\* A loop that pushes every library, in the list or not.
push_all(acc, libs) == acc \o libs

\* The loop that pushes every library not yet in the list.
RECURSIVE push_new(_, _)
push_new(acc, libs) ==
  IF libs = << >> THEN acc
  ELSE push_new(IF vec_contains(acc, Head(libs)) THEN acc ELSE Append(acc, Head(libs)),
                Tail(libs))

\* The directives printed for the accumulated libraries.
extra_lib_directives(libs) == [k \in 1..Len(libs) |-> "cargo:rustc-link-lib=" \o libs[k]]

\* The programs main() copies next to the build output, by feature.
binaries == <<<<"ffmpeg", "FFMPEG">>, <<"ffplay", "FFPLAY">>, <<"ffprobe", "FFPROBE">>>>

\* The programs this run copies.
copied_binaries == {binaries[k][1] : k \in {j \in 1..Len(binaries) :
                                               var_is_ok("CARGO_FEATURE_" \o binaries[j][2])}}

\* The libraries the pkg-config fallback probes by feature, in order.
pkg_config_libs ==
  <<
    <<"libavformat", "AVFORMAT">>, <<"libavfilter", "AVFILTER">>,
    <<"libavdevice", "AVDEVICE">>, <<"libavresample", "AVRESAMPLE">>,
    <<"libswscale", "SWSCALE">>, <<"libswresample", "SWRESAMPLE">>
  >>

\* The packages the fallback probes, in order: libavutil, the libraries of
\* the set features, libavcodec.
pkg_config_probes ==
  <<"libavutil">>
  \o flatten([k \in 1..Len(pkg_config_libs) |->
                IF var_is_ok("CARGO_FEATURE_" \o pkg_config_libs[k][2])
                THEN <<pkg_config_libs[k][1]>> ELSE << >>], 1, Len(pkg_config_libs))
  \o <<"libavcodec">>

\* The frameworks linked for a static build on macOS.
frameworks ==
  <<
    "AppKit", "AudioToolbox", "AVFoundation", "CoreFoundation", "CoreGraphics",
    "CoreMedia", "CoreServices", "CoreVideo", "Foundation", "OpenCL", "OpenGL", "QTKit",
    "QuartzCore", "Security", "VideoDecodeAcceleration", "VideoToolbox"
  >>

framework_directives ==
  IF statik /\ cfg_macos
  THEN [k \in 1..Len(frameworks) |-> "cargo:rustc-link-lib=framework=" \o frameworks[k]]
  ELSE << >>

-----------------------------------------------------------------------------
(* check_features(): the probe *)

\* The catalog main() passes to check_features: (header, feature, var).
infos ==
  <<
  <<"libavutil/avutil.h", None, "FF_API_OLD_AVOPTIONS">>,
  <<"libavutil/avutil.h", None, "FF_API_PIX_FMT">>,
  <<"libavutil/avutil.h", None, "FF_API_CONTEXT_SIZE">>,
  <<"libavutil/avutil.h", None, "FF_API_PIX_FMT_DESC">>,
  <<"libavutil/avutil.h", None, "FF_API_AV_REVERSE">>,
  <<"libavutil/avutil.h", None, "FF_API_AUDIOCONVERT">>,
  <<"libavutil/avutil.h", None, "FF_API_CPU_FLAG_MMX2">>,
  <<"libavutil/avutil.h", None, "FF_API_LLS_PRIVATE">>,
  <<"libavutil/avutil.h", None, "FF_API_AVFRAME_LAVC">>,
  <<"libavutil/avutil.h", None, "FF_API_VDPAU">>,
  <<"libavutil/avutil.h", None, "FF_API_GET_CHANNEL_LAYOUT_COMPAT">>,
  <<"libavutil/avutil.h", None, "FF_API_XVMC">>,
  <<"libavutil/avutil.h", None, "FF_API_OPT_TYPE_METADATA">>,
  <<"libavutil/avutil.h", None, "FF_API_DLOG">>, <<"libavutil/avutil.h", None, "FF_API_HMAC">>,
  <<"libavutil/avutil.h", None, "FF_API_VAAPI">>,
  <<"libavutil/avutil.h", None, "FF_API_PKT_PTS">>,
  <<"libavutil/avutil.h", None, "FF_API_ERROR_FRAME">>,
  <<"libavutil/avutil.h", None, "FF_API_FRAME_QP">>,
  <<"libavcodec/avcodec.h", Some("avcodec"), "FF_API_VIMA_DECODER">>,
  <<"libavcodec/avcodec.h", Some("avcodec"), "FF_API_REQUEST_CHANNELS">>,
  <<"libavcodec/avcodec.h", Some("avcodec"), "FF_API_OLD_DECODE_AUDIO">>,
  <<"libavcodec/avcodec.h", Some("avcodec"), "FF_API_OLD_ENCODE_AUDIO">>,
  <<"libavcodec/avcodec.h", Some("avcodec"), "FF_API_OLD_ENCODE_VIDEO">>,
  <<"libavcodec/avcodec.h", Some("avcodec"), "FF_API_CODEC_ID">>,
  <<"libavcodec/avcodec.h", Some("avcodec"), "FF_API_AUDIO_CONVERT">>,
  <<"libavcodec/avcodec.h", Some("avcodec"), "FF_API_AVCODEC_RESAMPLE">>,
  <<"libavcodec/avcodec.h", Some("avcodec"), "FF_API_DEINTERLACE">>,
  <<"libavcodec/avcodec.h", Some("avcodec"), "FF_API_DESTRUCT_PACKET">>,
  <<"libavcodec/avcodec.h", Some("avcodec"), "FF_API_GET_BUFFER">>,
  <<"libavcodec/avcodec.h", Some("avcodec"), "FF_API_MISSING_SAMPLE">>,
  <<"libavcodec/avcodec.h", Some("avcodec"), "FF_API_LOWRES">>,
  <<"libavcodec/avcodec.h", Some("avcodec"), "FF_API_CAP_VDPAU">>,
  <<"libavcodec/avcodec.h", Some("avcodec"), "FF_API_BUFS_VDPAU">>,
  <<"libavcodec/avcodec.h", Some("avcodec"), "FF_API_VOXWARE">>,
  <<"libavcodec/avcodec.h", Some("avcodec"), "FF_API_SET_DIMENSIONS">>,
  <<"libavcodec/avcodec.h", Some("avcodec"), "FF_API_DEBUG_MV">>,
  <<"libavcodec/avcodec.h", Some("avcodec"), "FF_API_AC_VLC">>,
  <<"libavcodec/avcodec.h", Some("avcodec"), "FF_API_OLD_MSMPEG4">>,
  <<"libavcodec/avcodec.h", Some("avcodec"), "FF_API_ASPECT_EXTENDED">>,
  <<"libavcodec/avcodec.h", Some("avcodec"), "FF_API_THREAD_OPAQUE">>,
  <<"libavcodec/avcodec.h", Some("avcodec"), "FF_API_CODEC_PKT">>,
  <<"libavcodec/avcodec.h", Some("avcodec"), "FF_API_ARCH_ALPHA">>,
  <<"libavcodec/avcodec.h", Some("avcodec"), "FF_API_XVMC">>,
  <<"libavcodec/avcodec.h", Some("avcodec"), "FF_API_ERROR_RATE">>,
  <<"libavcodec/avcodec.h", Some("avcodec"), "FF_API_QSCALE_TYPE">>,
  <<"libavcodec/avcodec.h", Some("avcodec"), "FF_API_MB_TYPE">>,
  <<"libavcodec/avcodec.h", Some("avcodec"), "FF_API_MAX_BFRAMES">>,
  <<"libavcodec/avcodec.h", Some("avcodec"), "FF_API_NEG_LINESIZES">>,
  <<"libavcodec/avcodec.h", Some("avcodec"), "FF_API_EMU_EDGE">>,
  <<"libavcodec/avcodec.h", Some("avcodec"), "FF_API_ARCH_SH4">>,
  <<"libavcodec/avcodec.h", Some("avcodec"), "FF_API_ARCH_SPARC">>,
  <<"libavcodec/avcodec.h", Some("avcodec"), "FF_API_UNUSED_MEMBERS">>,
  <<"libavcodec/avcodec.h", Some("avcodec"), "FF_API_IDCT_XVIDMMX">>,
  <<"libavcodec/avcodec.h", Some("avcodec"), "FF_API_INPUT_PRESERVED">>,
  <<"libavcodec/avcodec.h", Some("avcodec"), "FF_API_NORMALIZE_AQP">>,
  <<"libavcodec/avcodec.h", Some("avcodec"), "FF_API_GMC">>,
  <<"libavcodec/avcodec.h", Some("avcodec"), "FF_API_MV0">>,
  <<"libavcodec/avcodec.h", Some("avcodec"), "FF_API_CODEC_NAME">>,
  <<"libavcodec/avcodec.h", Some("avcodec"), "FF_API_AFD">>,
  <<"libavcodec/avcodec.h", Some("avcodec"), "FF_API_VISMV">>,
  <<"libavcodec/avcodec.h", Some("avcodec"), "FF_API_DV_FRAME_PROFILE">>,
  <<"libavcodec/avcodec.h", Some("avcodec"), "FF_API_AUDIOENC_DELAY">>,
  <<"libavcodec/avcodec.h", Some("avcodec"), "FF_API_VAAPI_CONTEXT">>,
  <<"libavcodec/avcodec.h", Some("avcodec"), "FF_API_AVCTX_TIMEBASE">>,
  <<"libavcodec/avcodec.h", Some("avcodec"), "FF_API_MPV_OPT">>,
  <<"libavcodec/avcodec.h", Some("avcodec"), "FF_API_STREAM_CODEC_TAG">>,
  <<"libavcodec/avcodec.h", Some("avcodec"), "FF_API_QUANT_BIAS">>,
  <<"libavcodec/avcodec.h", Some("avcodec"), "FF_API_RC_STRATEGY">>,
  <<"libavcodec/avcodec.h", Some("avcodec"), "FF_API_CODED_FRAME">>,
  <<"libavcodec/avcodec.h", Some("avcodec"), "FF_API_MOTION_EST">>,
  <<"libavcodec/avcodec.h", Some("avcodec"), "FF_API_WITHOUT_PREFIX">>,
  <<"libavcodec/avcodec.h", Some("avcodec"), "FF_API_CONVERGENCE_DURATION">>,
  <<"libavcodec/avcodec.h", Some("avcodec"), "FF_API_PRIVATE_OPT">>,
  <<"libavcodec/avcodec.h", Some("avcodec"), "FF_API_CODER_TYPE">>,
  <<"libavcodec/avcodec.h", Some("avcodec"), "FF_API_RTP_CALLBACK">>,
  <<"libavcodec/avcodec.h", Some("avcodec"), "FF_API_STAT_BITS">>,
  <<"libavcodec/avcodec.h", Some("avcodec"), "FF_API_VBV_DELAY">>,
  <<"libavcodec/avcodec.h", Some("avcodec"), "FF_API_SIDEDATA_ONLY_PKT">>,
  <<"libavcodec/avcodec.h", Some("avcodec"), "FF_API_AVPICTURE">>,
  <<"libavformat/avformat.h", Some("avformat"), "FF_API_LAVF_BITEXACT">>,
  <<"libavformat/avformat.h", Some("avformat"), "FF_API_LAVF_FRAC">>,
  <<"libavformat/avformat.h", Some("avformat"), "FF_API_URL_FEOF">>,
  <<"libavformat/avformat.h", Some("avformat"), "FF_API_PROBESIZE_32">>,
  <<"libavformat/avformat.h", Some("avformat"), "FF_API_LAVF_AVCTX">>,
  <<"libavformat/avformat.h", Some("avformat"), "FF_API_OLD_OPEN_CALLBACKS">>,
  <<"libavfilter/avfilter.h", Some("avfilter"), "FF_API_AVFILTERPAD_PUBLIC">>,
  <<"libavfilter/avfilter.h", Some("avfilter"), "FF_API_FOO_COUNT">>,
  <<"libavfilter/avfilter.h", Some("avfilter"), "FF_API_OLD_FILTER_OPTS">>,
  <<"libavfilter/avfilter.h", Some("avfilter"), "FF_API_OLD_FILTER_OPTS_ERROR">>,
  <<"libavfilter/avfilter.h", Some("avfilter"), "FF_API_AVFILTER_OPEN">>,
  <<"libavfilter/avfilter.h", Some("avfilter"), "FF_API_OLD_FILTER_REGISTER">>,
  <<"libavfilter/avfilter.h", Some("avfilter"), "FF_API_OLD_GRAPH_PARSE">>,
  <<"libavfilter/avfilter.h", Some("avfilter"), "FF_API_NOCONST_GET_NAME">>,
  <<"libavresample/avresample.h", Some("avresample"), "FF_API_RESAMPLE_CLOSE_OPEN">>,
  <<"libswscale/swscale.h", Some("swscale"), "FF_API_SWS_CPU_CAPS">>,
  <<"libswscale/swscale.h", Some("swscale"), "FF_API_ARCH_BFIN">>
  >>

\* (lib, begin_version_major, end_version_major, begin_version_minor,
\*  end_version_minor)
version_check_info == <<<<"avcodec", 56, 60, 0, 80>>>>

\* Whether the loops of check_features keep a catalog entry: it names no
\* feature, or the feature it names is set.
retained(info) ==
  \/ ~is_some(info[2])
  \/ var_is_ok("CARGO_FEATURE_" \o to_uppercase(unwrap(info[2])))

\* The pieces of check.c.  In includes_code, an #include line or the
\* #ifndef block of a variable; in main_code, the printf of a variable or of
\* a version comparison.
include_item(header) == [kind |-> "include", name |-> header, major |-> 0, minor |-> 0]

guard_item(var) == [kind |-> "guard", name |-> var, major |-> 0, minor |-> 0]

probe_stmt(var) == [kind |-> "probe", name |-> var, major |-> 0, minor |-> 0]

version_stmt(lib, version_major, version_minor) ==
  [kind |-> "version", name |-> lib, major |-> version_major, minor |-> version_minor]

\* The catalog entries the loops keep, in order.
retained_entries == SelectSeq([k \in 1..Len(infos) |-> k], LAMBDA k : retained(infos[k]))

\* includes_code.find(&include).is_none(): the #include line of the header
\* is not in the text yet, that is, no entry kept before wrote it.
not_included(kept, i) ==
  \A j \in 1..(i - 1) : infos[kept[j]][1] # infos[kept[i]][1]

\* What the first loop appends to includes_code for the i-th kept entry.
includes_of(kept, i) ==
  (IF not_included(kept, i) THEN <<include_item(infos[kept[i]][1])>> ELSE << >>)
  \o <<guard_item(infos[kept[i]][3])>>

\* The first loop of check_features.
probe_code ==
  LET kept == retained_entries
  IN  [includes |-> flatten([i \in 1..Len(kept) |-> includes_of(kept, i)], 1, Len(kept)),
       main |-> [i \in 1..Len(kept) |-> probe_stmt(infos[kept[i]][3])]]

\* The second loop: one printf per (major, minor) of every entry of
\* version_check_info, minors innermost.
version_code_of(e) ==
  flatten([i \in 1..(e[3] - e[2]) |->
             [j \in 1..(e[5] - e[4]) |-> version_stmt(e[1], e[2] + i - 1, e[4] + j - 1)]],
          1, e[3] - e[2])

version_code ==
  flatten([k \in 1..Len(version_check_info) |-> version_code_of(version_check_info[k])],
          1, Len(version_check_info))

\* check.c as check_features writes it.
synthesized ==
  [includes |-> probe_code.includes, main |-> probe_code.main \o version_code]

\* The tag of a variable and of a version comparison.
var_str(var) == "[" \o var \o "]"

\* A tag of a version comparison that is not closed after the minor.
search_str_open(lib, version_major, version_minor) ==
  "[" \o lib \o "_version_greater_than_" \o digits(version_major) \o "_"
      \o digits(version_minor)

search_str(lib, version_major, version_minor) ==
  "[" \o lib \o "_version_greater_than_" \o digits(version_major) \o "_"
      \o digits(version_minor) \o "]"

-----------------------------------------------------------------------------
(* The C compiler and the probe program.  A macro table maps the names      *)
(* defined so far to their values; the headers' macros are integers.        *)

is_defined_name(var) == var \o "_is_defined"

version_major_name(lib) == "LIB" \o to_uppercase(lib) \o "_VERSION_MAJOR"

version_minor_name(lib) == "LIB" \o to_uppercase(lib) \o "_VERSION_MINOR"

\* #define name value.  Defining a name again with another value is a
\* diagnostic, and the new value stands.
define(t, name, value) ==
  [macros |-> (name :> value) @@ t.macros,
   redefined |-> t.redefined \/ (name \in DOMAIN t.macros /\ t.macros[name] # value),
   missing |-> t.missing]

\* The catalog entries whose variable the header defines.
defined_by(header) ==
  {k \in 1..Len(infos) : infos[k][1] = header /\ is_some(world.hdr[k])}

\* The header's definitions, each in the form the FFmpeg headers give their
\* FF_API_ macros: #ifndef name / #define name value / #endif, which leaves
\* a name that is already defined alone.
define_all(t, entries) ==
  [t EXCEPT !.macros =
     t.macros @@ [name \in {infos[k][3] : k \in entries} |->
                    unwrap(world.hdr[Min({k \in entries : infos[k][3] = name})])]]

\* #include <header>: the header's FF_API_ macros and, for a header that
\* brings in libavcodec/version.h, the version of the installed libavcodec.
include(t, header) ==
  IF header \in world.missing
  THEN [t EXCEPT !.missing = TRUE]
  ELSE LET u == define_all(t, defined_by(header))
       IN  IF header \in world.lavc_headers
           THEN define(define(u, version_major_name("avcodec"), world.lavc_version[1]),
                       version_minor_name("avcodec"), world.lavc_version[2])
           ELSE u

\* The #ifndef block check_features writes for a variable.
guard(t, var) ==
  IF var \notin DOMAIN t.macros
  THEN define(define(t, var, 0), is_defined_name(var), 0)
  ELSE define(t, is_defined_name(var), 1)

\* The preprocessor over the items lo..hi of includes_code, in order.  It
\* stops at an #include whose header is not found.
RECURSIVE preprocess(_, _, _, _)
preprocess(t, includes_code, lo, hi) ==
  IF lo > hi THEN t
  ELSE IF lo = hi
  THEN (IF includes_code[lo].kind = "include"
        THEN include(t, includes_code[lo].name)
        ELSE guard(t, includes_code[lo].name))
  ELSE LET mid == (lo + hi) \div 2
           u == preprocess(t, includes_code, lo, mid)
       IN  IF u.missing THEN u ELSE preprocess(u, includes_code, mid + 1, hi)

\* The macros the compiler defines itself.
predefined == ("__STDC__" :> 1)

preprocessed(code) ==
  preprocess([macros |-> predefined, redefined |-> FALSE, missing |-> FALSE],
             code.includes, 1, Len(code.includes))

\* The names a statement of main_code uses.
names_used(stmt) ==
  IF stmt.kind = "probe" THEN {stmt.name, is_defined_name(stmt.name)}
  ELSE {version_major_name(stmt.name), version_minor_name(stmt.name)}

\* The arguments check_features gives the compiler: -I and the directory,
\* for every directory, then -o, the executable and check.c.
compiler_args(paths) ==
  flatten([k \in 1..Len(paths) |-> <<"-I", paths[k]>>], 1, Len(paths))
  \o <<"-o", join(output, IF cfg_windows THEN "check.exe" ELSE "check"), "check.c">>

\* Whether the compiler accepts check.c: every header is found, every name
\* main() uses is a macro, and a compiler that treats diagnostics as errors
\* saw no macro redefined.
compiles(code) ==
  LET t == preprocessed(code)
  IN  /\ ~t.missing
      /\ \A k \in 1..Len(code.main) : names_used(code.main[k]) \subseteq DOMAIN t.macros
      /\ ~(world.werror /\ t.redefined)

\* A comparison that also holds for the installed version itself.
version_greater_or_equal(installed_major, installed_minor, version_major, version_minor) ==
  IF \/ installed_major > version_major
     \/ (installed_major = version_major /\ installed_minor >= version_minor)
  THEN 1 ELSE 0

\* The C comparison of the version printf, as the int it yields.
version_greater(installed_major, installed_minor, version_major, version_minor) ==
  IF \/ installed_major > version_major
     \/ (installed_major = version_major /\ installed_minor > version_minor)
  THEN 1 ELSE 0

\* What one printf of main_code prints.
printed(t, stmt) ==
  IF stmt.kind = "probe"
  THEN var_str(stmt.name) \o digits(t.macros[stmt.name])
         \o digits(t.macros[is_defined_name(stmt.name)]) \o "\n"
  ELSE search_str(stmt.name, stmt.major, stmt.minor)
         \o digits(version_greater(t.macros[version_major_name(stmt.name)],
                                   t.macros[version_minor_name(stmt.name)],
                                   stmt.major, stmt.minor))
         \o "\n"

\* The standard output of the compiled program.
program_output(code) ==
  LET t == preprocessed(code)
  IN  concat([k \in 1..Len(code.main) |-> printed(t, code.main[k])], 1, Len(code.main))

\* A loop that takes every character but 0 after the tag for a true value.
probe_facts_nonzero(text, at, var) ==
  LET found == FindIn(text, var_str(var), at)
      pos == found + Len(var_str(var))
      name == to_lowercase(var)
      value_facts ==
        IF SubSeq(text, pos, pos) # "0"
        THEN <<"cargo:rustc-cfg=feature=\"" \o name \o "\"", "cargo:" \o name \o "=true">>
        ELSE << >>
      defined_facts ==
        IF SubSeq(text, pos + 1, pos + 1) = "1"
        THEN <<"cargo:rustc-cfg=feature=\"" \o name \o "_is_defined\"",
               "cargo:" \o name \o "_is_defined=true">>
        ELSE << >>
  IN  IF found = 0
      THEN [lines |-> << >>, panic |-> "H-Variable not found in output"]
      ELSE IF pos > Len(text)
      THEN [lines |-> << >>, panic |-> "byte index out of bounds"]
      ELSE IF pos + 1 > Len(text)
      THEN [lines |-> value_facts, panic |-> "byte index out of bounds"]
      ELSE [lines |-> value_facts \o defined_facts, panic |-> ""]

\* One iteration of the loop that reads the variables back: the directives
\* it prints and the panic that ends it, "" when there is none.  `at` holds
\* the positions of '[' in the text, where every tag starts.
probe_facts(text, at, var) ==
  LET found == FindIn(text, var_str(var), at)
      pos == found + Len(var_str(var))
      name == to_lowercase(var)
      value_facts ==
        IF SubSeq(text, pos, pos) = "1"
        THEN <<"cargo:rustc-cfg=feature=\"" \o name \o "\"", "cargo:" \o name \o "=true">>
        ELSE << >>
      defined_facts ==
        IF SubSeq(text, pos + 1, pos + 1) = "1"
        THEN <<"cargo:rustc-cfg=feature=\"" \o name \o "_is_defined\"",
               "cargo:" \o name \o "_is_defined=true">>
        ELSE << >>
  IN  IF found = 0
      THEN [lines |-> << >>, panic |-> "H-Variable not found in output"]
      ELSE IF pos > Len(text)
      THEN [lines |-> << >>, panic |-> "byte index out of bounds"]
      ELSE IF pos + 1 > Len(text)
      THEN [lines |-> value_facts, panic |-> "byte index out of bounds"]
      ELSE [lines |-> value_facts \o defined_facts, panic |-> ""]

\* One iteration of the loop that reads the version comparisons back.
version_facts(text, at, stmt) ==
  LET tag == search_str(stmt.name, stmt.major, stmt.minor)
      found == FindIn(text, tag, at)
      pos == found + Len(tag)
  IN  IF found = 0
      THEN [lines |-> << >>, panic |-> "Variable not found in output"]
      ELSE IF pos > Len(text)
      THEN [lines |-> << >>, panic |-> "byte index out of bounds"]
      ELSE [lines |-> IF SubSeq(text, pos, pos) = "1"
                      THEN <<"cargo:rustc-cfg=feature=\""
                               \o SubSeq(tag, 2, Len(tag) - 1) \o "\"">>
                      ELSE << >>,
            panic |-> ""]

\* A loop of iterations r[1], r[2], ...: what is printed until the first
\* panic, and that panic.
until_panic(r) ==
  LET bad == {i \in 1..Len(r) : r[i].panic # ""}
      stop == IF bad = {} THEN Len(r) ELSE Min(bad)
  IN  [lines |-> flatten([i \in 1..stop |-> r[i].lines], 1, stop),
       panic |-> IF bad = {} THEN "" ELSE r[stop].panic]

\* A parsing loop that looks every variable of the catalog up, whatever the
\* features.
all_vars == [k \in 1..Len(infos) |-> infos[k][3]]

\* The variables the first parsing loop looks up: those of the entries its
\* own feature test keeps, in order.
looked_up_vars == [i \in 1..Len(retained_entries) |-> infos[retained_entries[i]][3]]

\* The first parsing loop of check_features over the captured output.
parse_probes(text) ==
  LET at == Starts(text, "[")
      looked_up == looked_up_vars
  IN  until_panic([i \in 1..Len(looked_up) |-> probe_facts(text, at, looked_up[i])])

\* The second parsing loop.
parse_versions(text) ==
  LET at == Starts(text, "[")
  IN  until_panic([i \in 1..Len(version_code) |-> version_facts(text, at, version_code[i])])

-----------------------------------------------------------------------------
(* main(): the binding generator *)

\* The headers bound, by feature (None: always), in the order main() adds
\* them to the builder.
header_groups ==
  <<
    <<Some("AVCODEC"), <<
      "libavcodec/avcodec.h", "libavcodec/dv_profile.h", "libavcodec/avfft.h",
      "libavcodec/vaapi.h", "libavcodec/vorbis_parser.h"
    >> >>,
    <<Some("AVDEVICE"), <<
      "libavdevice/avdevice.h"
    >> >>,
    <<Some("AVFILTER"), <<
      "libavfilter/buffersink.h", "libavfilter/buffersrc.h", "libavfilter/avfilter.h"
    >> >>,
    <<Some("AVFORMAT"), <<
      "libavformat/avformat.h", "libavformat/avio.h"
    >> >>,
    <<Some("AVRESAMPLE"), <<
      "libavresample/avresample.h"
    >> >>,
    <<None, <<
      "libavutil/adler32.h", "libavutil/aes.h", "libavutil/audio_fifo.h", "libavutil/base64.h",
      "libavutil/blowfish.h", "libavutil/bprint.h", "libavutil/buffer.h",
      "libavutil/camellia.h", "libavutil/cast5.h", "libavutil/channel_layout.h",
      "libavutil/cpu.h", "libavutil/crc.h", "libavutil/dict.h", "libavutil/display.h",
      "libavutil/downmix_info.h", "libavutil/error.h", "libavutil/eval.h", "libavutil/fifo.h",
      "libavutil/file.h", "libavutil/frame.h", "libavutil/hash.h", "libavutil/hmac.h",
      "libavutil/imgutils.h", "libavutil/lfg.h", "libavutil/log.h", "libavutil/lzo.h",
      "libavutil/macros.h", "libavutil/mathematics.h", "libavutil/md5.h", "libavutil/mem.h",
      "libavutil/motion_vector.h", "libavutil/murmur3.h", "libavutil/opt.h",
      "libavutil/parseutils.h", "libavutil/pixdesc.h", "libavutil/pixfmt.h",
      "libavutil/random_seed.h", "libavutil/rational.h", "libavutil/replaygain.h",
      "libavutil/ripemd.h", "libavutil/samplefmt.h", "libavutil/sha.h", "libavutil/sha512.h",
      "libavutil/stereo3d.h", "libavutil/avstring.h", "libavutil/threadmessage.h",
      "libavutil/time.h", "libavutil/timecode.h", "libavutil/twofish.h", "libavutil/avutil.h",
      "libavutil/xtea.h"
    >> >>,
    <<Some("POSTPROC"), <<
      "libpostproc/postprocess.h"
    >> >>,
    <<Some("SWRESAMPLE"), <<
      "libswresample/swresample.h"
    >> >>,
    <<Some("SWSCALE"), <<
      "libswscale/swscale.h"
    >> >>
  >>

\* fs::metadata(dir.join(header)).is_ok()
header_exists(dir, header) == header \notin world.missing

\* search_include(): the header in the first directory that holds it,
\* /usr/include/<header> when none does.
RECURSIVE search_include(_, _)
search_include(paths, header) ==
  IF paths = << >> THEN "/usr/include/" \o header
  ELSE IF header_exists(Head(paths), header) THEN join(Head(paths), header)
  ELSE search_include(Tail(paths), header)

\* The headers of one group: added when the group's feature is set.
group_headers(paths, group) ==
  IF is_some(group[1]) /\ ~var_is_ok("CARGO_FEATURE_" \o unwrap(group[1]))
  THEN << >>
  ELSE [k \in 1..Len(group[2]) |-> search_include(paths, group[2][k])]

\* Every .header(...) call of main(), in order.
bound_headers(paths) ==
  flatten([g \in 1..Len(header_groups) |-> group_headers(paths, header_groups[g])],
          1, Len(header_groups))

\* The -I arguments given to clang.
clang_includes(paths) == [k \in 1..Len(paths) |-> "-I" \o paths[k]]

\* The text written to tmp/.build: the compiler and the -I directories.
build_file(paths) ==
  world.cc \o concat([k \in 1..Len(paths) |-> " -I " \o paths[k]], 1, Len(paths))

-----------------------------------------------------------------------------
(* IntCallbacks::int_macro.  An i64 is three limbs <<hi, mid, low>> that    *)
(* stand for hi * 2^32 + mid * 2^16 + low, with hi a 32-bit signed integer  *)
(* and mid and low in 0..65535, so that the full width is kept.             *)

i64_min == <<-2147483647 - 1, 0, 0>>

i64_max == <<2147483647, 65535, 65535>>

\* i32::min_value() as i64 and i32::max_value() as i64
i32_min == <<-1, 32768, 0>>

i32_max == <<0, 32767, 65535>>

\* a <= b on i64
i64_le(a, b) ==
  \/ a[1] < b[1]
  \/ a[1] = b[1] /\ a[2] < b[2]
  \/ a[1] = b[1] /\ a[2] = b[2] /\ a[3] <= b[3]

\* Regex::new("^<prefix>").is_match(name)
is_match(prefix, name) == starts_with(name, prefix)

\* An int_macro() whose rule for the codec capabilities and flags does not
\* look at the value.
int_macro_any_value(name, value) ==
  IF is_match("AV_CH", name)
  THEN Some("ULongLong")
  ELSE IF is_match("AV_CODEC_CAP", name) \/ is_match("AV_CODEC_FLAG", name)
  THEN Some("UInt")
  ELSE IF is_match("AV_ERROR_MAX_STRING_SIZE", name)
  THEN Some("usize")
  ELSE IF i64_le(i32_min, value) /\ i64_le(value, i32_max)
  THEN Some("Int")
  ELSE None

\* int_macro(): the kind for the macro, None when bindgen is to choose.
int_macro(name, value) ==
  IF i64_le(i64_min, value) /\ i64_le(value, i64_max) /\ is_match("AV_CH", name)
  THEN Some("ULongLong")
  ELSE IF /\ i64_le(i32_min, value) /\ i64_le(value, i32_max)
          /\ (is_match("AV_CODEC_CAP", name) \/ is_match("AV_CODEC_FLAG", name))
  THEN Some("UInt")
  ELSE IF is_match("AV_ERROR_MAX_STRING_SIZE", name)
  THEN Some("usize")
  ELSE IF i64_le(i32_min, value) /\ i64_le(value, i32_max)
  THEN Some("Int")
  ELSE None

-----------------------------------------------------------------------------
(* The steps of main() *)

inputs == <<env, platform, world>>

probe_vars == <<check_c, cc_args, stdout>>

binding_vars == <<clang_args, headers, int_kinds>>

link_vars == <<reader, include_libs>>

\* A panic ends the run: nothing after it is executed.
Panic(message) == pc' = "panicked" /\ panic' = message

Goto(label) == pc' = label /\ panic' = panic

Log(stage) == stages' = Append(stages, stage)

\* The subprocess of the stage has exited, with success or not.
Exit(stage, ok) == exits' = Append(exits, [stage |-> stage, ok |-> ok])

\* An entry that skips config.mak when the installed library is found.
EnterBuildModeInstalled ==
  /\ pc = "main"
  /\ var_is_ok("CARGO_FEATURE_BUILD")
  /\ cargo' = cargo \o build_mode_directives
  /\ Goto(IF fs.installed THEN "copy_binaries" ELSE "fetch")
  /\ UNCHANGED <<inputs, exits, fs, args, link_vars, include_paths, probe_vars,
                 binding_vars, stages>>

\* main(), build feature set: the link directives, then the test for the
\* installed libavutil.a that decides whether to fetch and build.
EnterBuildMode ==
  /\ pc = "main"
  /\ var_is_ok("CARGO_FEATURE_BUILD")
  /\ cargo' = cargo \o build_mode_directives
  /\ Goto(IF fs.installed THEN "open_config" ELSE "fetch")
  /\ UNCHANGED <<inputs, exits, fs, args, link_vars, include_paths, probe_vars, binding_vars,
                 stages>>

\* An entry that takes FFMPEG_DIR whenever it is set, build feature or not.
UsePrebuiltFirst ==
  /\ pc = "main"
  /\ var_is_ok("FFMPEG_DIR")
  /\ cargo' = Append(cargo, "cargo:rustc-link-search=native=" \o join(world.ffmpeg_dir, "lib"))
  /\ include_paths' = <<join(world.ffmpeg_dir, "include")>>
  /\ Goto("frameworks")
  /\ UNCHANGED <<inputs, exits, fs, args, link_vars, probe_vars, binding_vars, stages>>

\* main(), FFMPEG_DIR set and no build feature: the prebuilt library.
UsePrebuilt ==
  /\ pc = "main"
  /\ ~var_is_ok("CARGO_FEATURE_BUILD")
  /\ var_is_ok("FFMPEG_DIR")
  /\ cargo' = Append(cargo, "cargo:rustc-link-search=native=" \o join(world.ffmpeg_dir, "lib"))
  /\ include_paths' = <<join(world.ffmpeg_dir, "include")>>
  /\ Goto("frameworks")
  /\ UNCHANGED <<inputs, exits, fs, args, link_vars, probe_vars, binding_vars, stages>>

\* main(), neither: pkg-config is asked for libavutil, for the libraries of
\* the set features and for libavcodec, whose include paths are kept.  The
\* first probe that fails panics (unwrap).
FallbackPkgConfig ==
  /\ pc = "main"
  /\ ~var_is_ok("CARGO_FEATURE_BUILD")
  /\ ~var_is_ok("FFMPEG_DIR")
  /\ \E n \in 1..Len(pkg_config_probes) : \E ok \in BOOLEAN :
       /\ ~ok \/ n = Len(pkg_config_probes)
       /\ stages' = stages \o [k \in 1..n |-> "pkg-config " \o pkg_config_probes[k]]
       /\ IF ok
          THEN include_paths' = world.pkg_include_paths /\ Goto("frameworks")
          ELSE include_paths' = include_paths /\ Panic("pkg-config failed")
  /\ UNCHANGED <<inputs, exits, fs, args, cargo, link_vars, probe_vars, binding_vars>>

\* fetch(): an existing source tree is removed, then the release is cloned.
Fetch ==
  /\ pc = "fetch"
  /\ Log("fetch")
  /\ \E ok \in BOOLEAN :
       /\ Exit("fetch", ok)
       /\ IF ok
          THEN /\ fs' = [fs EXCEPT !.tree = "cloned", !.mak = None]
               /\ Goto("configure")
          ELSE /\ fs' = [fs EXCEPT !.tree = "absent", !.mak = None]
               /\ Panic("fetch failed")
  /\ UNCHANGED <<inputs, args, cargo, link_vars, include_paths, probe_vars, binding_vars>>

\* build(): the switches are assembled and ./configure is run with them; on
\* success it has written ffbuild/config.mak.
Configure ==
  /\ pc = "configure"
  /\ Log("configure")
  /\ args' = configure_args
  /\ \E ok \in BOOLEAN :
       /\ Exit("configure", ok)
       /\ IF ok
          THEN fs' = [fs EXCEPT !.mak = Some(world.config_mak)] /\ Goto("make")
          ELSE fs' = fs /\ Panic("configure failed")
  /\ UNCHANGED <<inputs, cargo, link_vars, include_paths, probe_vars, binding_vars>>

\* A make whose exit status is not looked at.
MakeUnchecked ==
  /\ pc = "make"
  /\ Log("make")
  /\ \E ok \in BOOLEAN : Exit("make", ok) /\ Goto("make_install")
  /\ UNCHANGED <<inputs, fs, args, cargo, link_vars, include_paths, probe_vars,
                 binding_vars>>

\* build(): make -j<cpus>.
Make ==
  /\ pc = "make"
  /\ Log("make")
  /\ \E ok \in BOOLEAN :
       /\ Exit("make", ok)
       /\ IF ok THEN Goto("make_install") ELSE Panic("make failed")
  /\ UNCHANGED <<inputs, fs, args, cargo, link_vars, include_paths, probe_vars,
                 binding_vars>>

\* build(): make install, which puts libavutil.a and the headers in dist.
MakeInstall ==
  /\ pc = "make_install"
  /\ Log("make install")
  /\ \E ok \in BOOLEAN :
       /\ Exit("make install", ok)
       /\ IF ok
          THEN fs' = [fs EXCEPT !.installed = TRUE] /\ Goto("open_config")
          ELSE fs' = fs /\ Panic("make install failed")
  /\ UNCHANGED <<inputs, args, cargo, link_vars, include_paths, probe_vars, binding_vars>>

\* main(): File::open(config_mak).unwrap() and the empty include_libs.
OpenConfig ==
  /\ pc = "open_config"
  /\ Log("read config.mak")
  /\ IF is_some(fs.mak)
     THEN reader' = unwrap(fs.mak) /\ Goto("read_line")
     ELSE reader' = reader /\ Panic("No such file or directory")
  /\ include_libs' = << >>
  /\ UNCHANGED <<inputs, exits, fs, args, cargo, include_paths, probe_vars, binding_vars>>

\* main(): one iteration of the loop over the lines of config.mak.
ReadLine ==
  /\ pc = "read_line"
  /\ reader # << >>
  /\ reader' = Tail(reader)
  /\ LET line == Head(reader)
     IN  IF ~line.ok
         THEN include_libs' = include_libs /\ Panic("stream did not contain valid UTF-8")
         ELSE IF ~starts_with(line.text, "EXTRALIBS")
         THEN include_libs' = include_libs /\ Goto("read_line")
         ELSE IF ~line_has_value(line.text)
         THEN include_libs' = include_libs
              /\ Panic("called Option::unwrap() on a None value")
         ELSE IF line_gated_out(line.text)
         THEN include_libs' = include_libs /\ Goto("read_line")
         ELSE /\ include_libs' = push_new(include_libs,
                                          line_libs(splitn2(line.text, "=")[2]))
              /\ Goto("read_line")
  /\ UNCHANGED <<inputs, exits, fs, args, cargo, include_paths, probe_vars, binding_vars,
                 stages>>

\* main(): after the last line, one directive per accumulated library.
EmitLibs ==
  /\ pc = "read_line"
  /\ reader = << >>
  /\ cargo' = cargo \o extra_lib_directives(include_libs)
  /\ Goto("copy_binaries")
  /\ UNCHANGED <<inputs, exits, fs, args, link_vars, include_paths, probe_vars, binding_vars,
                 stages>>

\* main(): the programs of the set features are copied out of dist/bin; a
\* program the build did not produce makes fs::copy fail.
CopyBinaries ==
  /\ pc = "copy_binaries"
  /\ Log("copy binaries")
  /\ IF copied_binaries \subseteq world.built_bins
     THEN /\ fs' = [fs EXCEPT !.copied = copied_binaries]
          /\ include_paths' = <<join(search, "include")>>
          /\ Goto("frameworks")
     ELSE /\ fs' = fs
          /\ include_paths' = include_paths
          /\ Panic("failed to copy")
  /\ UNCHANGED <<inputs, exits, args, cargo, link_vars, probe_vars, binding_vars>>

\* A main() that generates the bindings before it probes the headers.
LinkFrameworksThenBind ==
  /\ pc = "frameworks"
  /\ cargo' = cargo \o framework_directives
  /\ Goto("write_build")
  /\ UNCHANGED <<inputs, exits, fs, args, link_vars, include_paths, probe_vars,
                 binding_vars, stages>>

\* main(): the macOS frameworks of a static build.
LinkFrameworks ==
  /\ pc = "frameworks"
  /\ cargo' = cargo \o framework_directives
  /\ Goto("synthesize")
  /\ UNCHANGED <<inputs, exits, fs, args, link_vars, include_paths, probe_vars, binding_vars,
                 stages>>

\* check_features(): both synthesis loops and the write of check.c.
Synthesize ==
  /\ pc = "synthesize"
  /\ Log("write check.c")
  /\ check_c' = synthesized
  /\ Goto("compile")
  /\ UNCHANGED <<inputs, exits, fs, args, cargo, link_vars, include_paths, cc_args, stdout,
                 binding_vars>>

\* check_features(): the host compiler over check.c with the -I directories.
Compile ==
  /\ pc = "compile"
  /\ Log("compile check.c")
  /\ cc_args' = compiler_args(include_paths)
  /\ \E ok \in {compiles(check_c)} :
       /\ Exit("compile check.c", ok)
       /\ IF ok THEN Goto("run") ELSE Panic("Compile failed")
  /\ UNCHANGED <<inputs, fs, args, cargo, link_vars, include_paths, check_c, stdout,
                 binding_vars>>

\* check_features(): the compiled program is run and its output captured.
RunCheck ==
  /\ pc = "run"
  /\ Log("run check")
  /\ stdout' = program_output(check_c)
  /\ Goto("parse_probes")
  /\ UNCHANGED <<inputs, exits, fs, args, cargo, link_vars, include_paths, check_c, cc_args,
                 binding_vars>>

\* check_features(): the loop that reads the variables back.
ParseProbes ==
  /\ pc = "parse_probes"
  /\ \E r \in {parse_probes(stdout)} :
         /\ cargo' = cargo \o r.lines
         /\ IF r.panic = "" THEN Goto("parse_versions") ELSE Panic(r.panic)
  /\ UNCHANGED <<inputs, exits, fs, args, link_vars, include_paths, probe_vars, binding_vars,
                 stages>>

\* check_features(): the loop that reads the version comparisons back.
ParseVersions ==
  /\ pc = "parse_versions"
  /\ \E r \in {parse_versions(stdout)} :
         /\ cargo' = cargo \o r.lines
         /\ IF r.panic = "" THEN Goto("write_build") ELSE Panic(r.panic)
  /\ UNCHANGED <<inputs, exits, fs, args, link_vars, include_paths, probe_vars, binding_vars,
                 stages>>

\* main(): tmp/.build, the compiler command with the -I directories.
WriteBuildFile ==
  /\ pc = "write_build"
  /\ fs' = [fs EXCEPT !.dot_build = Some(build_file(include_paths))]
  /\ Goto("bindgen")
  /\ UNCHANGED <<inputs, exits, args, cargo, link_vars, include_paths, probe_vars, binding_vars,
                 stages>>

\* main(): the builder gets the -I arguments and the headers, generates the
\* bindings, asking IntCallbacks for the kind of every integer macro of the
\* headers, and writes bindings.rs.
GenerateBindings ==
  /\ pc = "bindgen"
  /\ Log("bindgen")
  /\ clang_args' = clang_includes(include_paths)
  /\ headers' = bound_headers(include_paths)
  /\ int_kinds' = [k \in 1..Len(world.macros) |->
                     int_macro(world.macros[k][1], world.macros[k][2])]
  /\ \E ok \in BOOLEAN :
       IF ok
       THEN fs' = [fs EXCEPT !.bindings = TRUE] /\ Goto("done")
       ELSE fs' = fs /\ Panic("Unable to generate bindings")
  /\ UNCHANGED <<inputs, exits, args, cargo, link_vars, include_paths, probe_vars>>

Next ==
  \/ EnterBuildMode
  \/ UsePrebuilt
  \/ FallbackPkgConfig
  \/ Fetch
  \/ Configure
  \/ Make
  \/ MakeInstall
  \/ OpenConfig
  \/ ReadLine
  \/ EmitLibs
  \/ CopyBinaries
  \/ LinkFrameworks
  \/ Synthesize
  \/ Compile
  \/ RunCheck
  \/ ParseProbes
  \/ ParseVersions
  \/ WriteBuildFile
  \/ GenerateBindings

-----------------------------------------------------------------------------
(* The environments a run starts in *)

feature_var(feat) == "CARGO_FEATURE_" \o feat

\* A readable line of config.mak, and one that is not valid UTF-8.
text_line(text) == [ok |-> TRUE, text |-> text]

unreadable_line == [ok |-> FALSE, text |-> ""]

\* The headers give every FF_API_ macro of the catalog the value `base`,
\* except the entry `k`, which gets `value` (None: left undefined).
header_values(base, k, value) == [i \in 1..Len(infos) |-> IF i = k THEN value ELSE base]

\* config.mak as FFmpeg's configure writes it for a Linux target.
usual_config_mak ==
  <<
    text_line("LDFLAGS=-Wl,--as-needed"),
    text_line("EXTRALIBS-avcodec=-pthread -lm -lz"),
    text_line("EXTRALIBS-avfilter=-pthread -lm"),
    text_line("EXTRALIBS-avutil=-pthread -lm"),
    text_line("EXTRALIBS=")
  >>

\* Integer macros of the FFmpeg headers, each with its value.
usual_macros ==
  <<
    <<"AV_CH_LAYOUT_STEREO", <<0, 0, 3>>>>,
    <<"AV_CH_LAYOUT_NATIVE", <<-2147483647 - 1, 0, 0>>>>,
    <<"AV_CODEC_CAP_DR1", <<0, 0, 2>>>>,
    <<"AV_CODEC_FLAG_GLOBAL_HEADER", <<0, 64, 0>>>>,
    <<"AV_ERROR_MAX_STRING_SIZE", <<0, 0, 64>>>>,
    <<"AV_LOG_QUIET", <<-1, 65535, 65528>>>>,
    <<"AV_TIME_BASE", <<0, 15, 16960>>>>
  >>

usual_world ==
  [crate_version |-> <<4, 0>>,
   config_mak |-> usual_config_mak,
   hdr |-> header_values(Some(1), 0, None),
   lavc_headers |-> {"libavcodec/avcodec.h", "libavformat/avformat.h"},
   lavc_version |-> <<58, 3>>,
   missing |-> {},
   werror |-> FALSE,
   built_bins |-> {"ffmpeg", "ffprobe"},
   pkg_include_paths |-> <<"/usr/include/ffmpeg">>,
   ffmpeg_dir |-> "/opt/ffmpeg",
   cc |-> "cc",
   macros |-> usual_macros]

linux ==
  [target |-> "x86_64-unknown-linux-gnu", host |-> "x86_64-unknown-linux-gnu",
   out_dir |-> "/target/build/ffmpeg-sys/out"]

windows ==
  [target |-> "x86_64-pc-windows-msvc", host |-> "x86_64-pc-windows-msvc",
   out_dir |-> "C:\\my build\\out"]

macos ==
  [target |-> "x86_64-apple-darwin", host |-> "x86_64-apple-darwin",
   out_dir |-> "/target/build/ffmpeg-sys/out"]

cross ==
  [target |-> "aarch64-unknown-linux-gnu", host |-> "x86_64-unknown-linux-gnu",
   out_dir |-> "/target/build/ffmpeg-sys/out"]

\* Nothing built yet.
fresh_fs ==
  [tree |-> "absent", mak |-> None, installed |-> FALSE, copied |-> {},
   dot_build |-> None, bindings |-> FALSE]

\* An earlier run was interrupted after configure: its tree is still there.
interrupted_fs(w) == [fresh_fs EXCEPT !.tree = "earlier", !.mak = Some(w.config_mak)]

\* An earlier run completed: the tree and the installed libraries are there.
built_fs(w) == [interrupted_fs(w) EXCEPT !.installed = TRUE]

\* The state main() starts in, for a given environment.
Start(e, p, w, f) ==
  /\ env = e
  /\ platform = p
  /\ world = w
  /\ fs = f
  /\ pc = "main"
  /\ args = << >>
  /\ cargo = << >>
  /\ reader = << >>
  /\ include_libs = << >>
  /\ include_paths = << >>
  /\ check_c = [includes |-> << >>, main |-> << >>]
  /\ cc_args = << >>
  /\ stdout = ""
  /\ clang_args = << >>
  /\ headers = << >>
  /\ int_kinds = << >>
  /\ stages = << >>
  /\ exits = << >>
  /\ panic = ""

\* The three ways main() finds the library, each with a few features.
usual_envs ==
  {
    {feature_var("BUILD"), feature_var("AVCODEC"), feature_var("FFMPEG")},
    {feature_var("BUILD"), feature_var("STATIC"), feature_var("AVCODEC"),
     feature_var("AVFORMAT"), feature_var("AVFILTER"), feature_var("BUILD_ZLIB"),
     feature_var("FFPLAY"), "DEBUG"},
    {feature_var("BUILD"), feature_var("SWSCALE")},
    {"FFMPEG_DIR", feature_var("AVCODEC"), feature_var("AVFORMAT")},
    {feature_var("STATIC"), feature_var("AVCODEC"), feature_var("SWRESAMPLE")}
  }

\* Runs on every platform, in every mode, from every state of the disk.
UsualRuns ==
  \E e \in usual_envs : \E p \in {linux, windows, macos, cross} :
    \E f \in {fresh_fs, interrupted_fs(usual_world), built_fs(usual_world)} :
      Start(e, p, usual_world, f)

\* A run that fetches and builds on Linux with the features `set`.
Build(set, w) == Start({feature_var("BUILD")} \cup {feature_var(f) : f \in set}, linux, w, fresh_fs)

\* The features build() maps to a switch.
switch_features ==
  {switches[k][1] : k \in 1..Len(switches)} \cup {enables[k][1] : k \in 1..Len(enables)}

\* The most features set at once in FlagRuns.
MaxEnabled == 1

RECURSIVE sets_up_to(_)
sets_up_to(n) ==
  IF n = 0 THEN {{}}
  ELSE sets_up_to(n - 1) \cup {s \cup {f} : s \in sets_up_to(n - 1), f \in switch_features}

\* Building with any few of the features that have a switch.
FlagRuns == \E set \in sets_up_to(MaxEnabled) : Build(set, usual_world)

\* The optional libraries.
libraries ==
  {"AVCODEC", "AVDEVICE", "AVFILTER", "AVFORMAT", "AVRESAMPLE", "POSTPROC", "SWRESAMPLE",
   "SWSCALE"}

\* Building with any combination of the optional libraries.
LibraryRuns == \E set \in SUBSET libraries : Build(set, usual_world)

\* The values a header may give a macro: none, or an integer.
macro_values == {None, Some(0), Some(1), Some(5), Some(10), Some(-1)}

\* The catalog entries whose macro is varied on its own: the first entry,
\* the two entries of FF_API_XVMC and FF_API_OLD_FILTER_OPTS.
varied_entries ==
  {1} \cup {k \in 1..Len(infos) : infos[k][3] \in {"FF_API_XVMC", "FF_API_OLD_FILTER_OPTS"}}

\* Building against headers that define the macros in different ways, with
\* a compiler that may treat diagnostics as errors.
ProbeRuns ==
  \E set \in SUBSET {"AVCODEC", "AVFILTER"} :
    \E base \in {None, Some(1)} : \E k \in varied_entries : \E value \in macro_values :
      \E werror \in BOOLEAN :
        Build(set, [usual_world EXCEPT !.hdr = header_values(base, k, value),
                                       !.werror = werror])

\* Building against different versions of libavcodec.
VersionRuns ==
  \E major \in 55..60 : \E minor \in {0, 1, 2, 3, 4, 78, 79, 80, 100} :
    Build({"AVCODEC"}, [usual_world EXCEPT !.lavc_version = <<major, minor>>])

\* Lines configure may write to config.mak, for either kind of target, a
\* line with -l and the library as two words, a line that has no '=' and a
\* line that is not valid UTF-8.
mak_lines ==
  {
    unreadable_line,
    text_line("LDFLAGS=-lfoo"),
    text_line("EXTRALIBS=-lz -lm"),
    text_line("EXTRALIBS-avutil=-pthread -lm"),
    text_line("EXTRALIBS-avfilter=-lm -lz -ldl"),
    text_line("EXTRALIBS-swscale=-lm"),
    text_line("EXTRALIBS-cpu_init=-latomic"),
    text_line("EXTRALIBS-avfilter=psapi.lib ole32.lib -lm"),
    text_line("EXTRALIBS-avutil=-L/usr/lib -l m"),
    text_line("EXTRALIBS")
  }

\* The most lines of config.mak in LinkRuns.
MaxLines == 2

RECURSIVE files_up_to(_)
files_up_to(n) ==
  IF n = 0 THEN {<< >>}
  ELSE files_up_to(n - 1)
       \cup {Append(f, l) : f \in {g \in files_up_to(n - 1) : Len(g) = n - 1}, l \in mak_lines}

\* Building where configure writes any few of these lines.
LinkRuns ==
  \E set \in SUBSET {"AVFILTER", "SWSCALE"} : \E p \in {linux, windows} :
    \E file \in files_up_to(MaxLines) :
      Start({feature_var("BUILD")} \cup {feature_var(f) : f \in set}, p,
            [usual_world EXCEPT !.config_mak = file], fresh_fs)

\* Headers an installed FFmpeg may lack: one the catalog names and two it
\* does not name.
absent_headers == {"libavcodec/avcodec.h", "libavcodec/vaapi.h", "libavutil/time.h"}

\* Runs in every mode against an installation that lacks some headers.
HeaderRuns ==
  \E e \in {{feature_var("BUILD"), feature_var("AVCODEC")},
             {"FFMPEG_DIR", feature_var("AVCODEC"), feature_var("AVFORMAT")},
             {feature_var("AVCODEC")}} :
    \E p \in {linux, windows} : \E absent \in SUBSET absent_headers :
      Start(e, p, [usual_world EXCEPT !.missing = absent], fresh_fs)

\* Names of integer macros: with each prefix int_macro() tests, with none,
\* and with a prefix that is not at the start.
macro_names ==
  {"AV_CH_FRONT_LEFT", "AV_CHROMA_LOC", "AV_CODEC_CAP_DR1", "AV_CODEC_FLAG_QSCALE",
   "AV_CODEC_PROP_LOSSY", "AV_ERROR_MAX_STRING_SIZE", "AV_LOG_QUIET", "MY_AV_CH"}

\* Values of an i64: around zero, the ends of i32 and one past them, 2^32
\* and the ends of i64.
macro_i64s ==
  {<<0, 0, 0>>, <<0, 0, 1>>, <<-1, 65535, 65535>>,
   <<0, 32767, 65535>>, <<0, 32768, 0>>,
   <<-1, 32768, 0>>, <<-1, 32767, 65535>>,
   <<1, 0, 0>>, <<2147483647, 65535, 65535>>, <<-2147483647 - 1, 0, 0>>}

\* Binding a prebuilt FFmpeg whose headers hold one integer macro.
MacroRuns ==
  \E name \in macro_names : \E value \in macro_i64s :
    Start({"FFMPEG_DIR", feature_var("AVCODEC")}, linux,
          [usual_world EXCEPT !.macros = <<<<name, value>>>>], fresh_fs)

\* The variables that choose where the library comes from, in every
\* combination, with and without static linking.
mode_vars == {feature_var("BUILD"), "FFMPEG_DIR", feature_var("STATIC")}

ModeRuns ==
  \E set \in SUBSET mode_vars : \E p \in {linux, windows, macos} :
    \E f \in {fresh_fs, interrupted_fs(usual_world), built_fs(usual_world)} :
      Start(set \cup {feature_var("AVCODEC"), feature_var("FFMPEG")}, p, usual_world, f)

Init == UsualRuns

Spec == Init /\ [][Next]_vars

SpecFlags == (UsualRuns \/ FlagRuns) /\ [][Next]_vars

SpecLibs == (UsualRuns \/ LibraryRuns) /\ [][Next]_vars

SpecProbe == (UsualRuns \/ ProbeRuns) /\ [][Next]_vars

SpecVersion == (UsualRuns \/ VersionRuns) /\ [][Next]_vars

SpecLink == (UsualRuns \/ LinkRuns) /\ [][Next]_vars

SpecHeaders == (UsualRuns \/ HeaderRuns) /\ [][Next]_vars

SpecMacros == (UsualRuns \/ MacroRuns) /\ [][Next]_vars

SpecModes == (UsualRuns \/ ModeRuns) /\ [][Next]_vars

-----------------------------------------------------------------------------
(* Properties *)

Range(v) == {v[k] : k \in 1..Len(v)}

\* How many times x occurs in the sequence v.
count(v, x) == Cardinality({k \in 1..Len(v) : v[k] = x})

\* build() has assembled the switch list.
configured == args # << >>

\* The Toggle flags, each with its feature.
toggle_flags ==
  {
    <<"BUILD_LICENSE_GPL", "gpl">>, <<"BUILD_LICENSE_VERSION3", "version3">>,
    <<"BUILD_LICENSE_NONFREE", "nonfree">>, <<"AVCODEC", "avcodec">>,
    <<"AVDEVICE", "avdevice">>, <<"AVFILTER", "avfilter">>, <<"AVFORMAT", "avformat">>,
    <<"AVRESAMPLE", "avresample">>, <<"POSTPROC", "postproc">>,
    <<"SWRESAMPLE", "swresample">>, <<"SWSCALE", "swscale">>, <<"FFMPEG", "ffmpeg">>,
    <<"FFPLAY", "ffplay">>, <<"FFPROBE", "ffprobe">>
  }

\* C1: for every Toggle flag and every combination of features, the switch
\* list built by build() contains exactly one of --enable-<name> and
\* --disable-<name>, once: the enable form iff the feature is enabled.
C1_ToggleExactlyOne ==
  configured =>
    \A flag \in toggle_flags :
      LET enabling == count(args, "--enable-" \o flag[2])
          disabling == count(args, "--disable-" \o flag[2])
      IN  /\ enabling + disabling = 1
          /\ enabling = 1 <=> feature_var(flag[1]) \in env

\* C1 at work: a switch list with avfilter enabled and avcodec disabled.
C1_Witness ==
  /\ configured
  /\ feature_var("AVFILTER") \in env
  /\ feature_var("AVCODEC") \notin env
  /\ vec_contains(args, "--enable-avfilter")
  /\ vec_contains(args, "--disable-avcodec")

\* C2: for every flag mapped with enable!, BUILD_PIC -> pic included, and
\* every combination of features, --enable-<name> is in the switch list
\* built by build() iff the feature is selected.
C2_EnableOnlyIffSelected ==
  configured =>
    \A k \in 1..Len(enables) :
      vec_contains(args, "--enable-" \o enables[k][2]) <=> feature_var(enables[k][1]) \in env

\* The program has run and its output is captured.
captured == pc = "parse_probes"

\* Both parsing loops have finished.
parsed == pc = "write_build"

\* The retained catalog entries that name the variable of entry k.
entries_naming(k) ==
  {j \in 1..Len(infos) : retained(infos[j]) /\ infos[j][3] = infos[k][3]}

\* The headers leave the variable of entry k undefined.
left_undefined(k) == \A j \in entries_naming(k) : world.hdr[j] = None

\* The headers define the variable of entry k as v.
defined_as(k, v) == \A j \in entries_naming(k) : world.hdr[j] = Some(v)

\* The two characters after the first tag of the variable in the output,
\* `at` being the positions of '[' in it.
digits_after_tag(text, at, var) ==
  LET found == FindIn(text, var_str(var), at)
  IN  SubSeq(text, found + Len(var_str(var)), found + Len(var_str(var)) + 1)

\* The facts check_features emits for a variable.
true_fact(var) == "cargo:rustc-cfg=feature=\"" \o to_lowercase(var) \o "\""

defined_fact(var) == "cargo:rustc-cfg=feature=\"" \o to_lowercase(var) \o "_is_defined\""

\* The retained entries whose variable the headers define as a nonzero value.
defined_nonzero ==
  {k \in 1..Len(infos) :
     /\ retained(infos[k])
     /\ is_some(world.hdr[k])
     /\ unwrap(world.hdr[k]) # 0
     /\ defined_as(k, unwrap(world.hdr[k]))}

\* C3: for every retained variable that a header defines as a nonzero
\* value, the program prints the digits 11 after the tag, and check_features
\* emits both the fact that it is true and the fact that it is defined.
C3_TruthCoerced ==
  /\ captured =>
       LET at == Starts(stdout, "[")
       IN  \A k \in defined_nonzero : digits_after_tag(stdout, at, infos[k][3]) = "11"
  /\ parsed =>
       \A k \in defined_nonzero :
         /\ vec_contains(cargo, true_fact(infos[k][3]))
         /\ vec_contains(cargo, defined_fact(infos[k][3]))

\* The retained entries whose variable the headers leave undefined, and
\* those whose variable the headers define as 1.
undefined_entries == {k \in 1..Len(infos) : retained(infos[k]) /\ left_undefined(k)}

defined_as_one == {k \in 1..Len(infos) : retained(infos[k]) /\ defined_as(k, 1)}

\* C4: for a retained variable the headers leave undefined, the program
\* prints 00 and no fact is emitted for it; for a retained variable the
\* headers define as 1, the program prints 11 and both facts are emitted.
C4_ProbeRoundTrip ==
  /\ captured =>
       LET at == Starts(stdout, "[")
       IN  /\ \A k \in undefined_entries : digits_after_tag(stdout, at, infos[k][3]) = "00"
           /\ \A k \in defined_as_one : digits_after_tag(stdout, at, infos[k][3]) = "11"
  /\ parsed =>
       /\ \A k \in undefined_entries :
            /\ ~vec_contains(cargo, true_fact(infos[k][3]))
            /\ ~vec_contains(cargo, defined_fact(infos[k][3]))
       /\ \A k \in defined_as_one :
            /\ vec_contains(cargo, true_fact(infos[k][3]))
            /\ vec_contains(cargo, defined_fact(infos[k][3]))

\* The fact of one version comparison.
version_fact(major, minor) ==
  "cargo:rustc-cfg=feature=\"avcodec_version_greater_than_" \o digits(major) \o "_"
    \o digits(minor) \o "\""

\* The (major, minor) pairs the installed libavcodec is greater than.
pairs_below(installed) ==
  {p \in (56..59) \X (0..79) :
     installed[1] > p[1] \/ (installed[1] = p[1] /\ installed[2] > p[2])}

\* The positions of the version facts among the directives.
version_fact_lines ==
  {k \in 1..Len(cargo) :
     starts_with(cargo[k], "cargo:rustc-cfg=feature=\"avcodec_version_greater_than_")}

\* C5: for the installed libavcodec V.W and every major in [56,60) and
\* minor in [0,80), the fact avcodec_version_greater_than_<major>_<minor> is
\* emitted iff V > major or (V = major and W > minor), and once; for 58.3
\* these are the pairs with major < 58, or major = 58 and minor < 3.
C5_VersionMonotone ==
  parsed =>
    /\ {cargo[k] : k \in version_fact_lines}
         = {version_fact(p[1], p[2]) : p \in pairs_below(world.lavc_version)}
    /\ Cardinality(version_fact_lines) = Cardinality(pairs_below(world.lavc_version))
    /\ world.lavc_version = <<58, 3>> =>
         \A major \in 56..59, minor \in 0..79 :
           vec_contains(cargo, version_fact(major, minor))
             <=> (major < 58 \/ (major = 58 /\ minor < 3))

\* C5 at work: libavcodec 58.3 is greater than 58.2 and not than 58.3.
C5_Witness ==
  /\ parsed
  /\ world.lavc_version = <<58, 3>>
  /\ vec_contains(cargo, version_fact(58, 2))
  /\ ~vec_contains(cargo, version_fact(58, 3))

\* The loop over config.mak is running or has just ended.
resolving == pc \in {"read_line", "copy_binaries"}

\* The lines of config.mak the loop has processed so far.
processed ==
  LET file == unwrap(fs.mak)
  IN  SubSeq(file, 1, Len(file) - Len(reader))

\* A line the loop takes libraries from, as the loop decides it.
taken(line) ==
  /\ line.ok
  /\ starts_with(line.text, "EXTRALIBS")
  /\ line_has_value(line.text)
  /\ ~line_gated_out(line.text)

\* The library names of the lines taken so far, in order, repeats included.
names_read ==
  flatten([k \in 1..Len(processed) |->
             IF taken(processed[k])
             THEN line_libs(splitn2(processed[k].text, "=")[2])
             ELSE << >>], 1, Len(processed))

first_at(v, x) == Min({k \in 1..Len(v) : v[k] = x})

\* C6: over any sequence of processed EXTRALIBS lines, the accumulated list
\* never holds a name twice, holds the names read in the order of their first
\* occurrence, and one cargo:rustc-link-lib directive is emitted per name.
C6_LinkDedup ==
  resolving =>
    /\ \A i, j \in 1..Len(include_libs) : i # j => include_libs[i] # include_libs[j]
    /\ Range(include_libs) = Range(names_read)
    /\ \A i, j \in 1..Len(include_libs) :
         i < j => first_at(names_read, include_libs[i]) < first_at(names_read, include_libs[j])
    /\ pc = "copy_binaries" =>
         SubSeq(cargo, Len(build_mode_directives) + 1, Len(cargo))
           = [k \in 1..Len(include_libs) |-> "cargo:rustc-link-lib=" \o include_libs[k]]

\* C6 at work: two lines were taken that both name m, and m is listed.
C6_Witness ==
  /\ pc = "copy_binaries"
  /\ count(names_read, "m") = 2
  /\ count(include_libs, "m") = 1
  /\ Len(include_libs) > 1

\* The key of a line that has a value, and the library names of the value.
key_of(line) == SubSeq(line.text, 1, find(line.text, "=") - 1)

names_of(line) == line_libs(SubSeq(line.text, find(line.text, "=") + 1, Len(line.text)))

\* Whether a line with the key EXTRALIBS, EXTRALIBS-avutil or
\* EXTRALIBS-<sub> may contribute: always, always, and when the feature is set.
may_contribute(line) ==
  \/ key_of(line) = "EXTRALIBS"
  \/ key_of(line) = "EXTRALIBS-avutil"
  \/ /\ starts_with(key_of(line), "EXTRALIBS-")
     /\ feature_var(to_uppercase(SubSeq(key_of(line), 11, Len(key_of(line))))) \in env

\* The processed lines that begin with EXTRALIBS and have a value.
records_read ==
  {k \in 1..Len(processed) :
     /\ processed[k].ok
     /\ starts_with(processed[k].text, "EXTRALIBS")
     /\ contains(processed[k].text, "=")}

\* C7: a line whose key is EXTRALIBS-<sub>, <sub> other than avutil,
\* contributes no library unless the feature <sub> is enabled; the EXTRALIBS
\* line and the EXTRALIBS-avutil line always contribute.
C7_LinkGating ==
  resolving =>
    Range(include_libs)
      = UNION {Range(names_of(processed[k])) :
                 k \in {j \in records_read : may_contribute(processed[j])}}

\* C7 at work: the avfilter line was read with the feature unset, and its
\* dl is not listed, while the z and m of the EXTRALIBS line are.
C7_Witness ==
  /\ pc = "copy_binaries"
  /\ feature_var("AVFILTER") \notin env
  /\ \E k \in records_read : processed[k].text = "EXTRALIBS-avfilter=-lm -lz -ldl"
  /\ \E k \in records_read : processed[k].text = "EXTRALIBS=-lz -lm"
  /\ include_libs = <<"z", "m">>

\* C8: once config.mak is open, no line aborts the resolver: a line that
\* begins with EXTRALIBS and has no '=' is skipped.
C8_NoLineAborts ==
  ~(/\ pc = "panicked"
    /\ panic = "called Option::unwrap() on a None value"
    /\ \E k \in 1..Len(processed) :
         processed[k].ok /\ ~contains(processed[k].text, "="))

\* The printf statements of the variables in check.c, and the #ifndef blocks.
probe_stmts == {k \in 1..Len(check_c.main) : check_c.main[k].kind = "probe"}

guard_items == {k \in 1..Len(check_c.includes) : check_c.includes[k].kind = "guard"}

\* C9: for every combination of features, no variable is named twice among
\* the retained catalog entries, so that check.c prints each tag once and
\* holds the #ifndef block of each variable once.
C9_TagsUnique ==
  /\ \A i, j \in probe_stmts : i # j => check_c.main[i].name # check_c.main[j].name
  /\ \A i, j \in guard_items : i # j => check_c.includes[i].name # check_c.includes[j].name

\* The optional libraries, by the name of the library.
library_names ==
  {"avcodec", "avdevice", "avfilter", "avformat", "avresample", "postproc", "swresample",
   "swscale"}

\* The three places a library shows in a run that built FFmpeg.
switched_on(lib) == vec_contains(args, "--enable-" \o lib)

bound(lib) == \E k \in 1..Len(headers) : contains(headers[k], "lib" \o lib \o "/")

linked(lib) ==
  \E k \in 1..Len(cargo) :
    cargo[k] \in {"cargo:rustc-link-lib=" \o lib, "cargo:rustc-link-lib=static=" \o lib,
                  "cargo:rustc-link-lib=dylib=" \o lib}

\* C10: in build mode, for each optional library and every combination of
\* features, the configure switch is --enable-<lib>, the headers of the
\* library are bound and a cargo:rustc-link-lib directive names the library,
\* all three exactly when the feature of the library is enabled.
C10_ThreeWayAgreement ==
  (pc = "done" /\ feature_var("BUILD") \in env /\ configured) =>
    \A lib \in library_names :
      /\ switched_on(lib) <=> feature_var(to_uppercase(lib)) \in env
      /\ bound(lib) <=> feature_var(to_uppercase(lib)) \in env
      /\ linked(lib) <=> feature_var(to_uppercase(lib)) \in env

\* The directories named by the -I arguments of the probe compiler, and by
\* those of the binding generator.
probe_dirs == [k \in 1..((Len(cc_args) - 3) \div 2) |-> cc_args[2 * k]]

binding_dirs == [k \in 1..Len(clang_args) |-> SubSeq(clang_args[k], 3, Len(clang_args[k]))]

\* The path is inside the directory.
inside(path, dir) == starts_with(path, dir \o "/") \/ starts_with(path, dir \o "\\")

\* C11: the header-search directories given to the binding generator are
\* those given to the probe compiler, and every header path handed to the
\* binding generator is inside one of them.
C11_ProbeBindingConsistency ==
  pc = "done" =>
    /\ binding_dirs = probe_dirs
    /\ \A k \in 1..Len(headers) :
         \E d \in 1..Len(binding_dirs) : inside(headers[k], binding_dirs[d])

\* The subprocess of the stage has exited with success.
succeeded(stage) == \E k \in 1..Len(exits) : exits[k] = [stage |-> stage, ok |-> TRUE]

\* The stage run just before the k-th.
stage_before(k) == IF k = 1 THEN "" ELSE stages[k - 1]

\* C12: configure runs first, make only after configure exited zero and
\* make install only after make exited zero; a non-zero exit of fetch,
\* configure, make or make install ends the run with an error, with no later
\* stage after it, and no stage is run twice.
C12_FailFast ==
  /\ \A k \in 1..Len(stages) :
       /\ count(stages, stages[k]) = 1
       /\ stages[k] = "configure" => stage_before(k) = "fetch" /\ succeeded("fetch")
       /\ stages[k] = "make" => stage_before(k) = "configure" /\ succeeded("configure")
       /\ stages[k] = "make install" => stage_before(k) = "make" /\ succeeded("make")
  /\ \A k \in 1..Len(exits) :
       ~exits[k].ok =>
         /\ k = Len(exits)
         /\ stages[Len(stages)] = exits[k].stage
         /\ pc = "panicked"
         /\ ~fs.bindings

\* C12 at work: make exited non-zero after fetch and configure, and the run
\* ended there.
C12_Witness ==
  /\ pc = "panicked"
  /\ panic = "make failed"
  /\ stages = <<"fetch", "configure", "make">>
  /\ exits[3] = [stage |-> "make", ok |-> FALSE]

\* C13: a run never deletes the source tree an earlier interrupted or failed
\* run left behind: the tree stays as it was.
C13_EarlierTreeKept == [][fs.tree = "earlier" => fs'.tree = "earlier"]_vars

\* The probe program has been run in this invocation.
probed == pc \in {"parse_probes", "parse_versions", "write_build", "bindgen", "done"}

\* The stage is run once, and after the stage `earlier` when that one is run.
run_once_after(stage, earlier) ==
  /\ count(stages, stage) = 1
  /\ \A i, j \in 1..Len(stages) : (stages[i] = earlier /\ stages[j] = stage) => i < j

\* C14: every invocation that reaches the probe synthesizes, compiles and
\* runs the program anew, and in build mode derives the link directives from
\* config.mak again, also when the installed libavutil.a of an earlier run
\* makes it skip fetch and build; what is parsed is the output of this run.
C14_EveryBuildReprobes ==
  probed =>
    /\ run_once_after("write check.c", "read config.mak")
    /\ run_once_after("compile check.c", "write check.c")
    /\ run_once_after("run check", "compile check.c")
    /\ succeeded("compile check.c")
    /\ check_c = synthesized
    /\ stdout = program_output(synthesized)
    /\ feature_var("BUILD") \in env =>
         /\ count(stages, "read config.mak") = 1
         /\ reader = << >>
         /\ Range(include_libs) = Range(names_read)
         /\ SubSeq(cargo, Len(build_mode_directives) + 1,
                   Len(build_mode_directives) + Len(include_libs))
              = [k \in 1..Len(include_libs) |-> "cargo:rustc-link-lib=" \o include_libs[k]]

\* C14 at work: a run that found the installed library, skipped fetch and
\* build, and still read config.mak and ran the probe.
C14_Witness ==
  /\ pc = "done"
  /\ feature_var("BUILD") \in env
  /\ ~vec_contains(stages, "fetch")
  /\ ~vec_contains(stages, "make")
  /\ vec_contains(stages, "read config.mak")
  /\ vec_contains(stages, "run check")
  /\ include_libs # << >>
  /\ stdout # ""

\* The stages in the order they are to run.
stage_order ==
  <<"fetch", "configure", "make", "make install", "read config.mak", "compile check.c",
    "run check", "bindgen">>

\* The place of a stage in that order, 0 for a step that is none of them.
rank(stage) ==
  IF vec_contains(stage_order, stage)
  THEN Min({k \in 1..Len(stage_order) : stage_order[k] = stage})
  ELSE 0

\* The facts of the probe are the last directives printed.
facts_emitted ==
  LET facts == parse_probes(stdout).lines \o parse_versions(stdout).lines
  IN  /\ stdout # ""
      /\ Len(facts) <= Len(cargo)
      /\ SubSeq(cargo, Len(cargo) - Len(facts) + 1, Len(cargo)) = facts

\* C15: the stages run one after another in the order fetch, configure,
\* build, install, link-record resolution, probe compile, probe run, binding
\* generation; binding generation is the last stage and starts only after
\* the probe has run and its facts have been emitted.
C15_StageOrdering ==
  /\ \A i, j \in 1..Len(stages) :
       (i < j /\ rank(stages[i]) # 0 /\ rank(stages[j]) # 0)
         => rank(stages[i]) < rank(stages[j])
  /\ (pc = "bindgen" \/ vec_contains(stages, "bindgen")) =>
       /\ vec_contains(stages, "compile check.c")
       /\ vec_contains(stages, "run check")
       /\ facts_emitted
  /\ vec_contains(stages, "bindgen") => stages[Len(stages)] = "bindgen"

\* C15 at work: a run through every stage.
C15_Witness ==
  /\ pc = "done"
  /\ stages = <<"fetch", "configure", "make", "make install", "read config.mak",
                "copy binaries", "write check.c", "compile check.c", "run check",
                "bindgen">>
  /\ facts_emitted

\* The facts of the variables among the directives, in order.
probe_fact_lines ==
  SelectSeq(cargo, LAMBDA line :
    /\ starts_with(line, "cargo:rustc-cfg=feature=\"")
    /\ ~starts_with(line, "cargo:rustc-cfg=feature=\"avcodec_version_greater_than_"))

\* The facts the two characters after a tag stand for.
facts_of(var, two) ==
  (IF SubSeq(two, 1, 1) = "1" THEN <<true_fact(var)>> ELSE << >>)
  \o (IF SubSeq(two, 2, 2) = "1" THEN <<defined_fact(var)>> ELSE << >>)

\* C16: for every retained variable, check_features emits the fact
\* feature="<variable lowercased>" iff the character right after the tag of
\* the variable is 1, and the fact feature="<variable lowercased>_is_defined"
\* iff the next character is 1: one fact per 1, no fact for anything else.
C16_FactEmission ==
  parsed =>
    LET at == Starts(stdout, "[")
        kept == retained_entries
    IN  probe_fact_lines
          = flatten([i \in 1..Len(kept) |->
                       facts_of(infos[kept[i]][3],
                                digits_after_tag(stdout, at, infos[kept[i]][3]))],
                    1, Len(kept))

\* C16 at work: the first variable is defined as 5, the output has 51 after
\* its tag, and only the fact that it is defined is emitted.
C16_Witness ==
  /\ parsed
  /\ world.hdr[1] = Some(5)
  /\ digits_after_tag(stdout, Starts(stdout, "["), infos[1][3]) = "51"
  /\ ~vec_contains(cargo, true_fact(infos[1][3]))
  /\ vec_contains(cargo, defined_fact(infos[1][3]))

\* The tag of an output statement of check.c.
tag_of(stmt) ==
  IF stmt.kind = "probe" THEN var_str(stmt.name)
  ELSE search_str(stmt.name, stmt.major, stmt.minor)

\* The tags check.c has an output statement for.
tags_emitted == {tag_of(check_c.main[k]) : k \in 1..Len(check_c.main)}

\* The tags the two parsing loops look up.
tags_looked_up ==
  {var_str(looked_up_vars[i]) : i \in 1..Len(looked_up_vars)}
  \cup {search_str("avcodec", p[1], p[2]) : p \in (56..59) \X (0..79)}

\* C17: for every combination of features, the tags check_features looks up
\* in the captured output are the tags it emitted an output statement for,
\* and a run never fails for a tag that is missing from the output.
C17_ParseSynthesisAgreement ==
  /\ pc = "compile" => tags_looked_up = tags_emitted
  /\ panic \notin {"H-Variable not found in output", "Variable not found in output"}

\* C17 at work: avcodec is enabled and avfilter is not; the variables of
\* avfilter have no statement, those of avcodec have, and parsing completed.
C17_Witness ==
  /\ parsed
  /\ feature_var("AVCODEC") \in env
  /\ feature_var("AVFILTER") \notin env
  /\ "[FF_API_OLD_FILTER_OPTS]" \notin tags_emitted
  /\ "[FF_API_XVMC]" \in tags_emitted
  /\ "[avcodec_version_greater_than_59_79]" \in tags_emitted

\* The name begins with the prefix.
begins(name, prefix) ==
  Len(name) >= Len(prefix) /\ SubSeq(name, 1, Len(prefix)) = prefix

\* The value hi * 2^32 + mid * 2^16 + low lies between -2^31 and 2^31 - 1.
fits_i32(value) ==
  \/ value[1] = 0 /\ value[2] <= 32767
  \/ value[1] = -1 /\ value[2] >= 32768

\* The kind the ordered rules give: the first rule that matches wins.
kind_by_rules(name, value) ==
  CASE begins(name, "AV_CH") -> Some("ULongLong")
    [] ~begins(name, "AV_CH")
       /\ (begins(name, "AV_CODEC_CAP") \/ begins(name, "AV_CODEC_FLAG"))
       /\ fits_i32(value) -> Some("UInt")
    [] ~begins(name, "AV_CH")
       /\ ~((begins(name, "AV_CODEC_CAP") \/ begins(name, "AV_CODEC_FLAG")) /\ fits_i32(value))
       /\ begins(name, "AV_ERROR_MAX_STRING_SIZE") -> Some("usize")
    [] OTHER -> IF fits_i32(value) THEN Some("Int") ELSE None

\* The bindings have been generated.
bindings_generated == int_kinds # << >>

\* C18: the kind of an integer macro is the one of the first rule that
\* matches, in the order AV_CH (any value), AV_CODEC_CAP or AV_CODEC_FLAG
\* with a value that fits in i32, AV_ERROR_MAX_STRING_SIZE, any value that
\* fits in i32, and no kind otherwise; a codec capability or flag whose
\* value does not fit in i32 gets no kind.
C18_RuleOrder ==
  bindings_generated =>
    \A k \in 1..Len(world.macros) :
      LET name == world.macros[k][1]
          value == world.macros[k][2]
      IN  /\ int_kinds[k] = kind_by_rules(name, value)
          /\ (begins(name, "AV_CODEC_CAP") \/ begins(name, "AV_CODEC_FLAG")) /\ ~fits_i32(value)
               => int_kinds[k] = None

\* C18 at work: a codec capability whose value is 2^31 has got no kind.
C18_Witness ==
  /\ bindings_generated
  /\ world.macros = <<<<"AV_CODEC_CAP_DR1", <<0, 32768, 0>>>>>>
  /\ int_kinds = <<None>>

\* check.c holds a statement that compares the version of avcodec.
has_version_checks ==
  \E k \in 1..Len(check_c.main) :
    check_c.main[k].kind = "version" /\ check_c.main[k].name = "avcodec"

\* C19: for every combination of features, a check.c that holds the version
\* comparisons of avcodec also includes libavcodec/avcodec.h, the header
\* that defines the macros they use.
C19_VersionChecksHaveHeader ==
  pc = "compile" /\ has_version_checks
    => include_item("libavcodec/avcodec.h") \in Range(check_c.includes)

\* The line of the text a position lies in, lines ending at the positions
\* `ends`.
line_of(ends, pos) == 1 + Cardinality({i \in ends : i < pos})

\* The position is the first of its line.
line_start(ends, pos) == pos = 1 \/ (pos - 1) \in ends

\* The tag occurs in the text at the position.
occurs_at(text, tag, pos) ==
  pos + Len(tag) - 1 <= Len(text) /\ SubSeq(text, pos, pos + Len(tag) - 1) = tag

\* C20: in the captured output, line k is printed by statement k of
\* check.c.  For every tag of the run, the first occurrence the search finds
\* is at the start of a line printed by a statement with that tag, and the
\* tag occurs nowhere on the line of a statement with another tag: the
\* digits decoded after it are those of its own statement.
C20_TagLookupExact ==
  captured =>
    \A at \in {Starts(stdout, "[")} : \A ends \in {Starts(stdout, "\n")} :
      \A k \in 1..Len(check_c.main) :
        \A tag \in {tag_of(check_c.main[k])} :
          /\ \A found \in {FindIn(stdout, tag, at)} :
               /\ found # 0
               /\ line_start(ends, found)
               /\ tag_of(check_c.main[line_of(ends, found)]) = tag
          /\ \A i \in at :
               occurs_at(stdout, tag, i)
                 => tag_of(check_c.main[line_of(ends, i)]) = tag

\* C20 at work: the output holds the lines of FF_API_OLD_FILTER_OPTS and
\* FF_API_OLD_FILTER_OPTS_ERROR and those of the versions 56.1 and 56.10,
\* and the searches for the four tags end on four different lines.
C20_Witness ==
  /\ captured
  /\ \A at \in {Starts(stdout, "[")} :
       \A a \in {FindIn(stdout, var_str("FF_API_OLD_FILTER_OPTS"), at)} :
       \A b \in {FindIn(stdout, var_str("FF_API_OLD_FILTER_OPTS_ERROR"), at)} :
       \A c \in {FindIn(stdout, search_str("avcodec", 56, 1), at)} :
       \A d \in {FindIn(stdout, search_str("avcodec", 56, 10), at)} :
         /\ 0 \notin {a, b, c, d}
         /\ a < b /\ b < c /\ c < d

\* The source of the header-search directories the precedence gives.
mode ==
  IF feature_var("BUILD") \in env THEN "build"
  ELSE IF "FFMPEG_DIR" \in env THEN "prebuilt"
  ELSE "pkg-config"

\* The directories of each source: dist/include under OUT_DIR, include
\* under FFMPEG_DIR, the paths pkg-config reports.
dirs_of(m) ==
  LET sep == IF contains(platform.host, "windows") THEN "\\" ELSE "/"
  IN  CASE m = "build" -> <<platform.out_dir \o sep \o "dist" \o sep \o "include">>
        [] m = "prebuilt" -> <<world.ffmpeg_dir \o sep \o "include">>
        [] OTHER -> world.pkg_include_paths

\* The steps of build mode, and those of pkg-config.
build_stages ==
  {"fetch", "configure", "make", "make install", "read config.mak", "copy binaries"}

pkg_config_stage(stage) == starts_with(stage, "pkg-config ")

\* C21: the header-search directories of a run come from one source, the
\* build tree when the build feature is set, else FFMPEG_DIR, else
\* pkg-config, and the probe and the binding generator get those; fetching,
\* building, reading config.mak and copying binaries happen in build mode
\* only; with the build feature set FFMPEG_DIR leaves no trace.
C21_OneSourceByPrecedence ==
  /\ include_paths \in {<< >>, dirs_of(mode)}
  /\ cc_args # << >> => probe_dirs = dirs_of(mode)
  /\ clang_args # << >> => binding_dirs = dirs_of(mode)
  /\ \A k \in 1..Len(stages) :
       /\ stages[k] \in build_stages => mode = "build"
       /\ pkg_config_stage(stages[k]) => mode = "pkg-config"
  /\ \A k \in 1..Len(exits) : exits[k].stage \in build_stages => mode = "build"
  /\ fs.copied # {} => mode = "build"
  /\ mode = "build" =>
       /\ \A k \in 1..Len(cargo) : ~contains(cargo[k], world.ffmpeg_dir)
       /\ \A k \in 1..Len(clang_args) : ~contains(clang_args[k], world.ffmpeg_dir)

\* C21 at work: the build feature and FFMPEG_DIR are both set, the run
\* fetched and built, and the bindings were generated from dist/include.
C21_Witness ==
  /\ pc = "done"
  /\ feature_var("BUILD") \in env
  /\ "FFMPEG_DIR" \in env
  /\ vec_contains(stages, "fetch")
  /\ vec_contains(stages, "copy binaries")
  /\ binding_dirs = dirs_of("build")

\* The library names of the directives the resolver printed.
emitted_names ==
  LET from == Len(build_mode_directives)
  IN  [k \in 1..(Len(cargo) - from) |->
         SubSeq(cargo[from + k], Len("cargo:rustc-link-lib=") + 1, Len(cargo[from + k]))]

\* The words of the values of the lines the loop took.
selected_tokens ==
  UNION {Range(split(splitn2(processed[k].text, "=")[2], " ")) :
           k \in {j \in 1..Len(processed) : taken(processed[j])}}

\* A library name as the target's linker writes it.
decorated(name) == IF contains(platform.target, "windows") THEN name \o ".lib" ELSE "-l" \o name

\* C22: every library name the resolver emits in a cargo:rustc-link-lib
\* directive is non-empty and is a word of a selected line without the
\* decoration of the target, -l in front or .lib behind; a word of the
\* other shape gives no directive.
C22_EmittedNamesAreBareTokens ==
  pc = "copy_binaries" =>
    \A k \in 1..Len(emitted_names) :
      /\ emitted_names[k] # ""
      /\ decorated(emitted_names[k]) \in selected_tokens

====
